---- MODULE Spec2Model ----
(***************************************************************************)
(* Model of the resilient fetch pipeline of web3-career-mcp:               *)
(*   SimpleCache (src/unnamed/part_002), Web3CareerService                 *)
(*   (src/src/services/api.ts:1-161) and the get_web3_jobs tool handler    *)
(*   (src/unnamed/part_001).                                               *)
(*                                                                         *)
(* JavaScript values are tagged records; a string value is the sequence of *)
(* its characters, an object the sequence of its own properties in         *)
(* insertion order.  Strings built by the program (the cache key) are TLA+ *)
(* strings.                                                                *)
(***************************************************************************)
EXTENDS Integers, Sequences, FiniteSets, TLC

VARIABLES
    now,        \* Date.now(), in ms
    cache,      \* SimpleCache.cache : Map<string, {value, expiry}>
    pc,         \* per invocation: "idle", "http", "sleep", "done"
    filters,    \* per invocation: the JobFilters object passed to getJobs
    attempt,    \* per invocation: loop variable of fetchWithRetry
    lastError,  \* per invocation: local lastError of fetchWithRetry
    delay,      \* per invocation: delay of the pending setTimeout
    result,     \* per invocation: settled value of the getJobs promise
    httpCalls,  \* history: axios.get calls issued by the invocation
    sleeps,     \* history: setTimeout delays awaited by the invocation
    outcomes,   \* history: outcome of each settled axios.get of the invocation
    params,     \* history: query parameters of the invocation's axios.get calls
    latest,     \* history: the invocation made last, 0 when it has been returned
    cache0,     \* history: the cache when the latest invocation was made
    quiet,      \* history: no other invocation and no clear changed the cache since
    stored,     \* history: per key, the last list stored by getJobs since the last clear
    events,     \* history: the log events emitted for the invocation, oldest first
    overlap,    \* history: since the invocation was made, another one has been in one retry delay
    lab         \* input/output of a pure function under test

vars == <<now, cache, pc, filters, attempt, lastError, delay, result,
          httpCalls, sleeps, outcomes, params, latest, cache0, quiet, stored,
          events, overlap, lab>>

-----------------------------------------------------------------------------
(* Program constants, api.ts:7-10 *)
MAX_RETRIES == 3
INITIAL_RETRY_DELAY_MS == 1000
MAX_RETRY_DELAY_MS == 10000
CACHE_TTL_MS == 300000

(* Bounds of the model *)
MaxTicks == 3                      \* number of clock advances
TickMs == CACHE_TTL_MS \div 2      \* one clock advance
RandDen == 10                      \* Math.random() is drawn from {0/10 .. 9/10}

Procs == {1, 2}                    \* invocation slots: getJobs calls that can be in flight
Callers == {1}                     \* the slot used when calls are made one after the other

-----------------------------------------------------------------------------
(* JavaScript values *)
Undef == [t |-> "undef"]
JNull == [t |-> "null"]
JBool(b) == [t |-> "bool", b |-> b]
JNum(n) == [t |-> "num", n |-> n]
JStr(s) == [t |-> "str", s |-> s]
JArr(a) == [t |-> "arr", a |-> a]
JObj(o) == [t |-> "obj", o |-> o]
Prop(k, v) == [k |-> k, v |-> v]

IsArray(v) == v.t = "arr"
IsString(v) == v.t = "str"
IsBoolean(v) == v.t = "bool"
\* typeof v === 'object' : objects, arrays and null
TypeofObject(v) == v.t \in {"obj", "arr", "null"}

TruthyEmptyArrayFalsy(v) ==
    CASE v.t = "undef" -> FALSE
      [] v.t = "null" -> FALSE
      [] v.t = "bool" -> v.b
      [] v.t = "num" -> v.n # 0
      [] v.t = "str" -> Len(v.s) > 0
      [] v.t = "arr" -> Len(v.a) > 0
      [] OTHER -> TRUE

\* JavaScript truthiness of the values a JobFilters field can hold
Truthy(v) ==
    CASE v.t = "undef" -> FALSE
      [] v.t = "null" -> FALSE
      [] v.t = "bool" -> v.b
      [] v.t = "num" -> v.n # 0
      [] v.t = "str" -> Len(v.s) > 0
      [] OTHER -> TRUE

\* obj.key : the value of property key, undefined when obj has no such property
RECURSIVE GetProp(_, _)
GetProp(o, key) ==
    IF o = <<>> THEN Undef
    ELSE IF o[1].k = key THEN o[1].v
    ELSE GetProp(Tail(o), key)

\* the characters of a string value as one TLA+ string
RECURSIVE Chars(_)
Chars(s) == IF s = <<>> THEN "" ELSE s[1] \o Chars(Tail(s))

-----------------------------------------------------------------------------
(* JSON.stringify of a JobFilters object: own properties in insertion      *)
(* order, properties whose value is undefined left out.                    *)
\* the characters of a string value as JSON.stringify writes them: a double
\* quote and a backslash are escaped with a backslash
RECURSIVE QuoteChars(_)
QuoteChars(s) ==
    IF s = <<>> THEN ""
    ELSE (IF s[1] \in {"\"", "\\"} THEN "\\" \o s[1] ELSE s[1]) \o QuoteChars(Tail(s))

StringifyValueUnescaped(v) ==
    CASE v.t = "bool" -> (IF v.b THEN "true" ELSE "false")
      [] v.t = "num" -> ToString(v.n)
      [] v.t = "str" -> "\"" \o Chars(v.s) \o "\""
      [] OTHER -> "null"

StringifyValue(v) ==
    CASE v.t = "bool" -> (IF v.b THEN "true" ELSE "false")
      [] v.t = "num" -> ToString(v.n)
      [] v.t = "str" -> "\"" \o QuoteChars(v.s) \o "\""
      [] OTHER -> "null"

RECURSIVE StringifyProps(_, _)
StringifyProps(o, first) ==
    IF o = <<>> THEN ""
    ELSE IF o[1].v = Undef THEN StringifyProps(Tail(o), first)
    ELSE (IF first THEN "" ELSE ",")
         \o "\"" \o o[1].k \o "\":" \o StringifyValue(o[1].v)
         \o StringifyProps(Tail(o), FALSE)

JSONStringify(o) == "{" \o StringifyProps(o, TRUE) \o "}"

\* api.ts:79
CacheKey(f) == JSONStringify(f)

-----------------------------------------------------------------------------
(* SimpleCache, part_002 *)
EmptyMap == [k \in {} |-> Undef]

MapSet(m, key, e) == [k \in (DOMAIN m) \cup {key} |-> IF k = key THEN e ELSE m[k]]
MapDelete(m, key) == [k \in (DOMAIN m) \ {key} |-> m[k]]

CacheSetHalfTtl(m, key, value, t) ==
    MapSet(m, key, [value |-> value, expiry |-> t + CACHE_TTL_MS \div 2])

\* set(key, value) with ttlMs omitted: expiry = Date.now() + defaultTtlMs
CacheSet(m, key, value, t) == MapSet(m, key, [value |-> value, expiry |-> t + CACHE_TTL_MS])

ExpiredAtBoundary(e, t) == t >= e.expiry

\* get(key): the entry is expired when Date.now() > expiry
Expired(e, t) == t > e.expiry

CacheGetKeepingExpired(m, key, t) ==
    IF key \notin DOMAIN m THEN [value |-> Undef, map |-> m]
    ELSE IF Expired(m[key], t) THEN [value |-> Undef, map |-> m]
    ELSE [value |-> m[key].value, map |-> m]

CacheGetSweeping(m, key, t) ==
    LET live == {k \in DOMAIN m : ~Expired(m[k], t)}
    IN IF key \notin DOMAIN m THEN [value |-> Undef, map |-> [k \in live |-> m[k]]]
       ELSE IF Expired(m[key], t) THEN [value |-> Undef, map |-> [k \in live |-> m[k]]]
       ELSE [value |-> m[key].value, map |-> [k \in live |-> m[k]]]

CacheGetSliding(m, key, t) ==
    IF key \notin DOMAIN m THEN [value |-> Undef, map |-> m]
    ELSE IF Expired(m[key], t) THEN [value |-> Undef, map |-> MapDelete(m, key)]
    ELSE [value |-> m[key].value,
          map |-> MapSet(m, key, [value |-> m[key].value, expiry |-> t + CACHE_TTL_MS])]

\* get(key): the returned value (Undef for undefined) and the map afterwards
CacheGet(m, key, t) ==
    IF key \notin DOMAIN m THEN [value |-> Undef, map |-> m]
    ELSE IF Expired(m[key], t) THEN [value |-> Undef, map |-> MapDelete(m, key)]
    ELSE [value |-> m[key].value, map |-> m]

\* clear()
CacheClear(m) == EmptyMap

CacheSetTtlFalsy(m, key, value, ttlMs, t) ==
    MapSet(m, key, [value |-> value,
                    expiry |-> t + (IF ttlMs.t = "num" /\ ttlMs.n # 0 THEN ttlMs.n
                                    ELSE CACHE_TTL_MS)])

\* set(key, value, ttlMs): expiry = Date.now() + (ttlMs ?? this.defaultTtlMs),
\* for the cache the service constructs with defaultTtlMs = CACHE_TTL_MS
CacheSetTtl(m, key, value, ttlMs, t) ==
    MapSet(m, key, [value |-> value,
                    expiry |-> t + (IF ttlMs.t \in {"undef", "null"} THEN CACHE_TTL_MS
                                    ELSE ttlMs.n)])

-----------------------------------------------------------------------------
(* Raw errors thrown by axios.get.  response: error.response is set;       *)
(* status: error.response.status; request: error.request is set.           *)
RawError(ax, resp, st, req, msg) ==
    [axios |-> ax, response |-> resp, status |-> st, request |-> req, message |-> msg]

HttpError(st) == RawError(TRUE, TRUE, st, TRUE, "Request failed with status code")
NetworkError == RawError(TRUE, FALSE, 0, TRUE, "Network Error")
SetupError == RawError(TRUE, FALSE, 0, FALSE, "Invalid URL")
PlainError(msg) == RawError(FALSE, FALSE, 0, FALSE, msg)

isRetryableAnyStatus(e) ==
    IF e.axios
    THEN IF e.response /\ e.status >= 400 THEN TRUE
         ELSE IF ~e.response /\ e.request THEN TRUE
         ELSE FALSE
    ELSE FALSE

isRetryableServerOnly(e) ==
    IF e.axios
    THEN IF e.response /\ e.status >= 500 THEN TRUE
         ELSE IF ~e.response /\ e.request THEN TRUE
         ELSE FALSE
    ELSE FALSE

\* api.ts:21-34
isRetryableError(e) ==
    IF e.axios
    THEN IF e.response /\ (e.status = 429 \/ e.status >= 500) THEN TRUE
         ELSE IF ~e.response /\ e.request THEN TRUE
         ELSE FALSE
    ELSE FALSE

ClassifyClientFirst(e) ==
    IF e.axios
    THEN IF e.response /\ e.status = 401 THEN "Unauthorized"
         ELSE IF e.response /\ e.status = 403 THEN "Forbidden"
         ELSE IF e.response /\ e.status = 429 THEN "RateLimited"
         ELSE IF e.response /\ e.status >= 400 THEN "UpstreamClientError"
         ELSE IF e.response /\ e.status >= 500 THEN "UpstreamServerError"
         ELSE IF ~e.response /\ e.request THEN "NetworkUnreachable"
         ELSE "Unknown"
    ELSE "Unknown"

\* part_001:107-158, the class of the result the handler returns
Classify(e) ==
    IF e.axios
    THEN IF e.response /\ e.status = 401 THEN "Unauthorized"
         ELSE IF e.response /\ e.status = 403 THEN "Forbidden"
         ELSE IF e.response /\ e.status = 429 THEN "RateLimited"
         ELSE IF e.response /\ e.status >= 500 THEN "UpstreamServerError"
         ELSE IF e.response /\ e.status >= 400 THEN "UpstreamClientError"
         ELSE IF ~e.response /\ e.request THEN "NetworkUnreachable"
         ELSE "Unknown"
    ELSE "Unknown"

-----------------------------------------------------------------------------
(* Response normalisation, api.ts:98-154 *)
MalformedNotArray == "Unexpected API response format. Response is not an array."
MalformedNoJobs == "Unexpected API response format. Could not find jobs array."

DESCRIPTION_LIMIT == 500

\* characters matched by \s
Whitespace == {" ", "\t", "\n", "\r"}

\* index of the first ">" of s at or after position i, 0 when there is none
FirstClose(s, i) ==
    LET closes == {k \in i..Len(s) : s[k] = ">"}
    IN IF closes = {} THEN 0 ELSE CHOOSE k \in closes : \A m \in closes : k <= m

\* start of the first match of /<[^>]+>/ in s at or after position i, 0 when
\* there is none: a "<", one or more characters other than ">", and a ">"
FirstTag(s, i) ==
    LET opens == {k \in i..Len(s) : s[k] = "<" /\ FirstClose(s, k + 1) > k + 1}
    IN IF opens = {} THEN 0 ELSE CHOOSE k \in opens : \A m \in opens : k <= m

\* s.replace(/<[^>]+>/g, ' ') from position i on, match after match
RECURSIVE StripTagsFrom(_, _)
StripTagsFrom(s, i) ==
    LET from == FirstTag(s, i)
    IN IF from = 0 THEN SubSeq(s, i, Len(s))
       ELSE SubSeq(s, i, from - 1) \o <<" ">>
            \o StripTagsFrom(s, FirstClose(s, from + 1) + 1)

\* replace without the g flag: the first match only
StripTagsFirstOnly(s) ==
    LET from == FirstTag(s, 1)
    IN IF from = 0 THEN s
       ELSE SubSeq(s, 1, from - 1) \o <<" ">>
            \o SubSeq(s, FirstClose(s, from + 1) + 1, Len(s))

StripTags(s) == StripTagsFrom(s, 1)

\* s.replace(/\s+/g, ' '): each run of whitespace becomes one space
CollapseWhitespace(s) ==
    LET StartsRun(i) == ~(s[i] \in Whitespace /\ i > 1 /\ s[i - 1] \in Whitespace)
        kept == SelectSeq([i \in 1..Len(s) |-> i], StartsRun)
    IN [k \in 1..Len(kept) |-> IF s[kept[k]] \in Whitespace THEN " " ELSE s[kept[k]]]

RECURSIVE TrimStart(_)
TrimStart(s) ==
    IF s # <<>> /\ s[1] \in Whitespace THEN TrimStart(Tail(s)) ELSE s

RECURSIVE TrimEnd(_)
TrimEnd(s) ==
    IF s # <<>> /\ s[Len(s)] \in Whitespace THEN TrimEnd(SubSeq(s, 1, Len(s) - 1)) ELSE s

Trim(s) == TrimEnd(TrimStart(s))

CleanDescriptionNoEllipsis(s) ==
    LET cleaned == Trim(CollapseWhitespace(StripTags(s)))
    IN IF Len(cleaned) > DESCRIPTION_LIMIT
       THEN SubSeq(cleaned, 1, DESCRIPTION_LIMIT)
       ELSE cleaned

\* api.ts:135-144
CleanDescription(s) ==
    LET cleaned == Trim(CollapseWhitespace(StripTags(s)))
    IN IF Len(cleaned) > DESCRIPTION_LIMIT
       THEN SubSeq(cleaned, 1, DESCRIPTION_LIMIT) \o <<".", ".", ".">>
       ELSE cleaned

\* the string-typed and the other fields the processed object is created with
StringFields == <<"id", "title", "company", "location">>
StringFieldsAfterRemote == <<"url", "salary", "postedAt">>
KnownFields == {"id", "title", "company", "location", "remote", "url", "salary",
                "postedAt", "tags", "description"}

\* property names every object inherits from Object.prototype
ObjectPrototypeKeys == {"constructor", "toString", "toLocaleString", "valueOf",
                        "hasOwnProperty", "isPrototypeOf", "propertyIsEnumerable",
                        "__proto__", "__defineGetter__", "__defineSetter__",
                        "__lookupGetter__", "__lookupSetter__"}

\* key in processed
InProcessed(key) == key \in KnownFields \cup ObjectPrototypeKeys

\* own enumerable properties of jobObj: of an object, or the indices of an array
OwnProps(job) ==
    IF job.t = "arr" THEN [i \in 1..Len(job.a) |-> Prop(ToString(i - 1), job.a[i])]
    ELSE job.o

StringOrUndef(v) == IF IsString(v) THEN v ELSE Undef

\* api.ts:116-154
ProcessJob(job) ==
    IF ~TypeofObject(job) \/ job = JNull THEN <<>>
    ELSE
    LET o == OwnProps(job)
        field(name) == Prop(name, StringOrUndef(GetProp(o, name)))
        remote == GetProp(o, "remote")
        tags == GetProp(o, "tags")
        desc == GetProp(o, "description")
        known ==
            [i \in 1..Len(StringFields) |-> field(StringFields[i])]
            \o << Prop("remote", IF IsBoolean(remote) THEN remote ELSE Undef) >>
            \o [i \in 1..Len(StringFieldsAfterRemote) |-> field(StringFieldsAfterRemote[i])]
            \o << Prop("tags", IF IsArray(tags) THEN JArr(SelectSeq(tags.a, IsString))
                               ELSE Undef) >>
            \o << Prop("description", IF IsString(desc) THEN JStr(CleanDescription(desc.s))
                                      ELSE Undef) >>
        NotIn(p) == ~InProcessed(p.k)
        extra == SelectSeq(o, NotIn)
    IN \* an array element's index keys enumerate before the string keys
       IF job.t = "arr" THEN extra \o known ELSE known \o extra

RECURSIVE FindArrayLast(_)
FindArrayLast(a) ==
    IF a = <<>> THEN Undef
    ELSE IF IsArray(a[Len(a)]) THEN a[Len(a)]
    ELSE FindArrayLast(SubSeq(a, 1, Len(a) - 1))

\* data.find(item => Array.isArray(item))
RECURSIVE FindArray(_)
FindArray(a) ==
    IF a = <<>> THEN Undef
    ELSE IF IsArray(a[1]) THEN a[1]
    ELSE FindArray(Tail(a))

LocateJobsAnyFirst(data) ==
    LET found == FindArray(data.a)
    IN IF ~Truthy(found) /\ Len(data.a) > 0 THEN data ELSE found

\* api.ts:105-110
LocateJobs(data) ==
    LET found == FindArray(data.a)
    IN IF ~Truthy(found) /\ Len(data.a) > 0 /\ TypeofObject(data.a[1]) /\ data.a[1] # JNull
       THEN data
       ELSE found

NormalizeLenient(data) ==
    IF ~IsArray(data) THEN [ok |-> TRUE, jobs |-> <<>>]
    ELSE LET jobs == LocateJobs(data)
         IN IF ~Truthy(jobs) \/ ~IsArray(jobs)
            THEN [ok |-> FALSE, message |-> MalformedNoJobs]
            ELSE [ok |-> TRUE, jobs |-> [i \in 1..Len(jobs.a) |-> ProcessJob(jobs.a[i])]]

\* api.ts:98-154: the list getJobs builds from response.data, or the Error it throws
Normalize(data) ==
    IF ~IsArray(data) THEN [ok |-> FALSE, message |-> MalformedNotArray]
    ELSE LET jobs == LocateJobs(data)
         IN IF ~Truthy(jobs) \/ ~IsArray(jobs)
            THEN [ok |-> FALSE, message |-> MalformedNoJobs]
            ELSE [ok |-> TRUE, jobs |-> [i \in 1..Len(jobs.a) |-> ProcessJob(jobs.a[i])]]

-----------------------------------------------------------------------------
(* Request construction and backoff, api.ts:54-59 and api.ts:87-95 *)
Token == JStr(<<"t", "o", "k">>)
TrueString == JStr(<<"t", "r", "u", "e">>)
FalseString == JStr(<<"f", "a", "l", "s", "e">>)

BuildParamsRemoteDefined(f) ==
    << Prop("token", Token) >>
    \o (IF GetProp(f, "remote") # Undef THEN << Prop("remote", TrueString) >> ELSE <<>>)
    \o (IF Truthy(GetProp(f, "limit")) THEN << Prop("limit", GetProp(f, "limit")) >> ELSE <<>>)
    \o (IF Truthy(GetProp(f, "country")) THEN << Prop("country", GetProp(f, "country")) >> ELSE <<>>)
    \o (IF Truthy(GetProp(f, "tag")) THEN << Prop("tag", GetProp(f, "tag")) >> ELSE <<>>)
    \o (IF GetProp(f, "show_description") = JBool(FALSE)
        THEN << Prop("show_description", FalseString) >> ELSE <<>>)

BuildParamsHasRemote(f) ==
    << Prop("token", Token) >>
    \o (IF \E i \in 1..Len(f) : f[i].k = "remote"
        THEN << Prop("remote", TrueString) >> ELSE <<>>)
    \o (IF Truthy(GetProp(f, "limit")) THEN << Prop("limit", GetProp(f, "limit")) >> ELSE <<>>)
    \o (IF Truthy(GetProp(f, "country")) THEN << Prop("country", GetProp(f, "country")) >> ELSE <<>>)
    \o (IF Truthy(GetProp(f, "tag")) THEN << Prop("tag", GetProp(f, "tag")) >> ELSE <<>>)
    \o (IF GetProp(f, "show_description") = JBool(FALSE)
        THEN << Prop("show_description", FalseString) >> ELSE <<>>)

BuildParams(f) ==
    << Prop("token", Token) >>
    \o (IF Truthy(GetProp(f, "remote")) THEN << Prop("remote", TrueString) >> ELSE <<>>)
    \o (IF Truthy(GetProp(f, "limit")) THEN << Prop("limit", GetProp(f, "limit")) >> ELSE <<>>)
    \o (IF Truthy(GetProp(f, "country")) THEN << Prop("country", GetProp(f, "country")) >> ELSE <<>>)
    \o (IF Truthy(GetProp(f, "tag")) THEN << Prop("tag", GetProp(f, "tag")) >> ELSE <<>>)
    \o (IF GetProp(f, "show_description") = JBool(FALSE)
        THEN << Prop("show_description", FalseString) >> ELSE <<>>)

Min(a, b) == IF a < b THEN a ELSE b

LastAttemptOneEarly(a) == a = MAX_RETRIES - 1

LastAttemptNever(a) == FALSE

\* api.ts:50, attempt === maxRetries
LastAttempt(a) == a = MAX_RETRIES

\* api.ts:43, attempt <= maxRetries
LoopContinues(a) == a <= MAX_RETRIES

StoreAlways(m, key, norm, t) ==
    IF norm.ok THEN CacheSet(m, key, JArr(norm.jobs), t) ELSE CacheSet(m, key, JNull, t)

StoreNever(m, key, norm, t) == m

StoreFirstWins(m, key, norm, t) ==
    IF norm.ok /\ key \notin DOMAIN m THEN CacheSet(m, key, JArr(norm.jobs), t) ELSE m

\* api.ts:100-114 and api.ts:156: the throw of a failed normalisation skips cache.set
StoreIfNormalized(m, key, norm, t) ==
    IF norm.ok THEN CacheSet(m, key, JArr(norm.jobs), t) ELSE m

BaseDelayUncapped(a) == INITIAL_RETRY_DELAY_MS * 2^a

BaseDelay(a) == Min(INITIAL_RETRY_DELAY_MS * 2^a, MAX_RETRY_DELAY_MS)

\* Math.floor(baseDelay + baseDelay * 0.2 * (r * 2 - 1)) for Math.random() = n / RandDen
BackoffDelay(a, n) == (BaseDelay(a) * (4 * RandDen + 2 * n)) \div (5 * RandDen)

-----------------------------------------------------------------------------
(* The get_web3_jobs handler, part_001:66-160 *)

\* the JobFilters object the handler passes to getJobs, part_001:80-86
HandlerFilters(args) ==
    << Prop("remote", GetProp(args, "remote")),
       Prop("limit", GetProp(args, "limit")),
       Prop("country", GetProp(args, "country")),
       Prop("tag", GetProp(args, "tag")),
       Prop("show_description", GetProp(args, "show_description")) >>

HandlerResultRethrowsUnknown(r) ==
    IF r.ok THEN [returned |-> TRUE, isError |-> FALSE, class |-> "Jobs"]
    ELSE IF Classify(r.err) = "Unknown"
         THEN [returned |-> FALSE, isError |-> FALSE, class |-> "Thrown"]
         ELSE [returned |-> TRUE, isError |-> TRUE, class |-> Classify(r.err)]

\* how the handler's promise settles for a settled getJobs promise, part_001:79-159:
\* returned is TRUE when it fulfils with a result, FALSE when an exception escapes
HandlerResult(r) ==
    IF r.ok THEN [returned |-> TRUE, isError |-> FALSE, class |-> "Jobs"]
    ELSE [returned |-> TRUE, isError |-> TRUE, class |-> Classify(r.err)]

-----------------------------------------------------------------------------
(* Inputs of the state machine *)
RemoteLimit == << Prop("remote", JBool(TRUE)), Prop("limit", JNum(5)) >>
LimitRemote == << Prop("limit", JNum(5)), Prop("remote", JBool(TRUE)) >>

Filters == {RemoteLimit, LimitRemote}

JobX == JObj(<< Prop("title", JStr(<<"X">>)),
                Prop("description", JStr(<<"<", "b", ">", "H", "i", "<", "/", "b", ">", " ", " ",
                                           "t", "h", "e", "r", "e">>)) >>)
Banner == JStr(<<"a">>)

NotAnArray == JObj(<< Prop("foo", JStr(<<"b", "a", "r">>)) >>)
Wrapped == JArr(<< Banner, Banner, JArr(<< JobX >>) >>)
WrappedEmpty == JArr(<< Banner, Banner, JArr(<<>>) >>)
NoJobList == JArr(<< Banner >>)

Payloads == {NotAnArray, Wrapped, WrappedEmpty, NoJobList}

Errors == {HttpError(401), HttpError(403), HttpError(404), HttpError(429), HttpError(503),
           NetworkError, PlainError("boom")}

\* the Math.random() draws the state machine explores: both ends of the range
RandomDraws == {0, RandDen - 1}

-----------------------------------------------------------------------------
(* The state machine *)
NoCall == [t |-> "none"]

Init ==
    /\ now = 0
    /\ cache = EmptyMap
    /\ pc = [p \in Procs |-> "idle"]
    /\ filters = [p \in Procs |-> <<>>]
    /\ attempt = [p \in Procs |-> 0]
    /\ lastError = [p \in Procs |-> Undef]
    /\ delay = [p \in Procs |-> 0]
    /\ result = [p \in Procs |-> NoCall]
    /\ httpCalls = [p \in Procs |-> 0]
    /\ sleeps = [p \in Procs |-> 0]
    /\ outcomes = [p \in Procs |-> <<>>]
    /\ params = [p \in Procs |-> <<>>]
    /\ latest = 0
    /\ cache0 = EmptyMap
    /\ quiet = TRUE
    /\ stored = EmptyMap
    /\ events = [p \in Procs |-> <<>>]
    /\ overlap = [p \in Procs |-> FALSE]
    /\ lab = NoCall

(* Log events, named by the level they are logged at *)
LogRetryNever(ev) == ev

\* logger.warn("API request failed, retrying"), api.ts:61-69
LogRetry(ev) == Append(ev, "warn")

\* logger.debug("Returning cached jobs"), api.ts:83
LogCached(ev) == Append(ev, "debug")

\* logger.info("Jobs fetched and cached"), api.ts:157
LogFetched(ev) == Append(ev, "info")

\* logger.error("Error fetching jobs") in the catch of the handler that awaits
\* getJobs, part_001:96-105
LogError(ev) == Append(ev, "error")

SleepBusyWaits == TRUE

\* await new Promise(resolve => setTimeout(resolve, delay)), api.ts:71: does a
\* pending delay keep the thread, so that nothing else runs until it is over?
\* No: the await hands control back to the event loop.
SleepBlocks == FALSE

\* invocation p can take a step: no other invocation holds the thread
Runnable(p) == \A q \in Procs \ {p} : pc[q] = "sleep" => ~SleepBlocks

\* getJobs(f) up to its first await, api.ts:78-97 and api.ts:43-45
Call(p, f) ==
    /\ pc[p] = "idle"
    /\ Runnable(p)
    /\ LET key == CacheKey(f)
           got == CacheGet(cache, key, now)
       IN /\ cache' = got.map
          /\ IF Truthy(got.value)
             THEN /\ pc' = [pc EXCEPT ![p] = "done"]
                  /\ result' = [result EXCEPT ![p] = [ok |-> TRUE, hit |-> TRUE, jobs |-> got.value]]
                  /\ events' = [events EXCEPT ![p] = LogCached(<<>>)]
                  /\ httpCalls' = [httpCalls EXCEPT ![p] = 0]
                  /\ params' = [params EXCEPT ![p] = <<>>]
             ELSE /\ pc' = [pc EXCEPT ![p] = "http"]
                  /\ result' = [result EXCEPT ![p] = NoCall]
                  /\ events' = [events EXCEPT ![p] = <<>>]
                  /\ httpCalls' = [httpCalls EXCEPT ![p] = 1]
                  /\ params' = [params EXCEPT ![p] = BuildParams(f)]
    /\ filters' = [filters EXCEPT ![p] = f]
    /\ attempt' = [attempt EXCEPT ![p] = 0]
    /\ lastError' = [lastError EXCEPT ![p] = Undef]
    /\ sleeps' = [sleeps EXCEPT ![p] = 0]
    /\ outcomes' = [outcomes EXCEPT ![p] = <<>>]
    /\ latest' = p
    /\ cache0' = cache
    /\ quiet' = TRUE
    /\ overlap' = [overlap EXCEPT ![p] = \E q \in Procs \ {p} : pc[q] = "sleep"]
    /\ UNCHANGED <<now, delay, stored, lab>>

\* axios.get resolves with response.data = data, api.ts:46 and api.ts:98-159
Resolve(p, data) ==
    /\ pc[p] = "http"
    /\ Runnable(p)
    /\ LET norm == Normalize(data)
           key == CacheKey(filters[p])
       IN /\ cache' = StoreIfNormalized(cache, key, norm, now)
          /\ IF norm.ok
             THEN /\ stored' = MapSet(stored, key, [value |-> JArr(norm.jobs), at |-> now])
                  /\ quiet' = (quiet /\ latest = p)
                  /\ result' = [result EXCEPT ![p] =
                                   [ok |-> TRUE, hit |-> FALSE, jobs |-> JArr(norm.jobs)]]
                  /\ events' = [events EXCEPT ![p] = LogFetched(@)]
             ELSE /\ result' = [result EXCEPT ![p] =
                                   [ok |-> FALSE, err |-> PlainError(norm.message)]]
                  /\ events' = [events EXCEPT ![p] = LogError(@)]
                  /\ UNCHANGED <<stored, quiet>>
    /\ pc' = [pc EXCEPT ![p] = "done"]
    /\ outcomes' = [outcomes EXCEPT ![p] = Append(@, [ok |-> TRUE, data |-> data])]
    /\ UNCHANGED <<now, filters, attempt, lastError, delay, httpCalls, sleeps, params,
                   latest, cache0, overlap, lab>>

ThrownEarlierError(earlier, e) == IF earlier = Undef THEN e ELSE earlier

\* throw error, api.ts:50-52: the error of the attempt that has just failed, not
\* the one kept from an earlier attempt
ThrownError(earlier, e) == e

\* axios.get rejects with e; n is the Math.random() draw, api.ts:47-71
Reject(p, e, n) ==
    /\ pc[p] = "http"
    /\ Runnable(p)
    /\ lastError' = [lastError EXCEPT ![p] = e]
    /\ outcomes' = [outcomes EXCEPT ![p] = Append(@, [ok |-> FALSE, err |-> e])]
    /\ IF LastAttempt(attempt[p]) \/ ~isRetryableError(e)
       THEN /\ pc' = [pc EXCEPT ![p] = "done"]
            /\ result' = [result EXCEPT ![p] = [ok |-> FALSE, err |-> ThrownError(lastError[p], e)]]
            /\ events' = [events EXCEPT ![p] = LogError(@)]
            /\ UNCHANGED <<delay, sleeps>>
       ELSE /\ pc' = [pc EXCEPT ![p] = "sleep"]
            /\ delay' = [delay EXCEPT ![p] = BackoffDelay(attempt[p], n)]
            /\ sleeps' = [sleeps EXCEPT ![p] = @ + 1]
            /\ events' = [events EXCEPT ![p] = LogRetry(@)]
            /\ UNCHANGED result
    /\ UNCHANGED <<now, cache, filters, attempt, httpCalls, params, latest, cache0, quiet,
                   stored, overlap, lab>>

\* the setTimeout of the backoff fires: attempt++ and the loop test, api.ts:43-45, 71-75
Wake(p) ==
    /\ pc[p] = "sleep"
    /\ attempt' = [attempt EXCEPT ![p] = @ + 1]
    /\ delay' = [delay EXCEPT ![p] = 0]
    /\ IF LoopContinues(attempt[p] + 1)
       THEN /\ pc' = [pc EXCEPT ![p] = "http"]
            /\ httpCalls' = [httpCalls EXCEPT ![p] = @ + 1]
            /\ UNCHANGED <<result, events>>
       ELSE /\ pc' = [pc EXCEPT ![p] = "done"]
            /\ result' = [result EXCEPT ![p] = [ok |-> FALSE, err |-> lastError[p]]]
            /\ events' = [events EXCEPT ![p] = LogError(@)]
            /\ UNCHANGED httpCalls
    /\ overlap' = [q \in Procs |-> q = p /\ overlap[q]]
    /\ UNCHANGED <<now, cache, filters, lastError, sleeps, outcomes, params, latest, cache0,
                   quiet, stored, lab>>

\* the caller has taken the settled result; the invocation slot is free again
Return(p) ==
    /\ pc[p] = "done"
    /\ Runnable(p)
    /\ pc' = [pc EXCEPT ![p] = "idle"]
    /\ filters' = [filters EXCEPT ![p] = <<>>]
    /\ attempt' = [attempt EXCEPT ![p] = 0]
    /\ lastError' = [lastError EXCEPT ![p] = Undef]
    /\ result' = [result EXCEPT ![p] = NoCall]
    /\ httpCalls' = [httpCalls EXCEPT ![p] = 0]
    /\ sleeps' = [sleeps EXCEPT ![p] = 0]
    /\ outcomes' = [outcomes EXCEPT ![p] = <<>>]
    /\ params' = [params EXCEPT ![p] = <<>>]
    /\ IF latest = p
       THEN latest' = 0 /\ cache0' = EmptyMap /\ quiet' = TRUE
       ELSE UNCHANGED <<latest, cache0, quiet>>
    /\ overlap' = [overlap EXCEPT ![p] = FALSE]
    /\ events' = [events EXCEPT ![p] = <<>>]
    /\ UNCHANGED <<now, cache, delay, stored, lab>>

\* time passes
Tick ==
    /\ now < MaxTicks * TickMs
    /\ now' = now + TickMs
    /\ UNCHANGED <<cache, pc, filters, attempt, lastError, delay, result, httpCalls, sleeps,
                   outcomes, params, latest, cache0, quiet, stored, events, overlap, lab>>

\* SimpleCache.clear()
Clear ==
    /\ cache' = CacheClear(cache)
    /\ stored' = EmptyMap
    /\ quiet' = (quiet /\ latest = 0)
    /\ UNCHANGED <<now, pc, filters, attempt, lastError, delay, result, httpCalls, sleeps,
                   outcomes, params, latest, cache0, events, overlap, lab>>

\* calls made one after the other
Next ==
    \/ \E p \in Callers, f \in Filters : Call(p, f)
    \/ \E p \in Callers, data \in Payloads : Resolve(p, data)
    \/ \E p \in Callers, e \in Errors, n \in RandomDraws : Reject(p, e, n)
    \/ \E p \in Callers : Wake(p)
    \/ \E p \in Callers : Return(p)
    \/ Tick
    \/ Clear

Spec == Init /\ [][Next]_vars

\* calls in flight together within one instant, over fewer upstream answers
ConcPayloads == {Wrapped, WrappedEmpty, NotAnArray}
ConcErrors == {HttpError(401), HttpError(503)}
ConcDraws == {0}

NextConc ==
    \/ \E p \in Procs, f \in Filters : Call(p, f)
    \/ \E p \in Procs, data \in ConcPayloads : Resolve(p, data)
    \/ \E p \in Procs, e \in ConcErrors, n \in ConcDraws : Reject(p, e, n)
    \/ \E p \in Procs : Wake(p)
    \/ \E p \in Procs : Return(p)

SpecConc == Init /\ [][NextConc]_vars

\* calls in flight together, every HTTP call settling and every backoff timer
\* firing in the end
TermPayloads == {WrappedEmpty, NotAnArray, NoJobList}

\* the pending axios.get of p settles, one way or the other
Settle(p) ==
    \/ \E data \in TermPayloads : Resolve(p, data)
    \/ \E e \in ConcErrors, n \in ConcDraws : Reject(p, e, n)

NextTerm ==
    \/ \E p \in Procs, f \in Filters : Call(p, f)
    \/ \E p \in Procs : Settle(p)
    \/ \E p \in Procs : Wake(p)
    \/ \E p \in Procs : Return(p)

SpecTerm ==
    /\ Init
    /\ [][NextTerm]_vars
    /\ \A p \in Procs : WF_vars(Settle(p)) /\ WF_vars(Wake(p))

-----------------------------------------------------------------------------
(* Pure functions under test: lab holds an input, then the input with the  *)
(* function's output.                                                      *)
MaxAttemptIndex == 5    \* attempt indices given to the backoff computation
MaxPayloadLen == 3      \* elements of a payload under test
MaxListLen == 2         \* elements of a job list under test
MaxPieces == 3          \* pieces a description under test is made of
MaxProps == 2           \* properties of a job object under test
MaxFields == 2      \* properties of a filter object under test

Statuses == {304, 400, 401, 402, 403, 404, 408, 418, 428, 429, 430, 499,
             500, 501, 502, 503, 504, 599}

\* what a catch block of the pipeline can receive
RawErrors ==
    {HttpError(st) : st \in Statuses}
    \cup {RawError(TRUE, TRUE, st, FALSE, "Request failed with status code") : st \in Statuses}
    \cup {NetworkError, SetupError}
    \cup {PlainError(m) : m \in {"boom", MalformedNotArray, MalformedNoJobs}}

LabRest ==
    /\ now = 0
    /\ cache = EmptyMap
    /\ pc = [p \in Procs |-> "idle"]
    /\ filters = [p \in Procs |-> <<>>]
    /\ attempt = [p \in Procs |-> 0]
    /\ lastError = [p \in Procs |-> Undef]
    /\ delay = [p \in Procs |-> 0]
    /\ result = [p \in Procs |-> NoCall]
    /\ httpCalls = [p \in Procs |-> 0]
    /\ sleeps = [p \in Procs |-> 0]
    /\ outcomes = [p \in Procs |-> <<>>]
    /\ params = [p \in Procs |-> <<>>]
    /\ latest = 0
    /\ cache0 = EmptyMap
    /\ quiet = TRUE
    /\ stored = EmptyMap
    /\ events = [p \in Procs |-> <<>>]
    /\ overlap = [p \in Procs |-> FALSE]

LabFrame == UNCHANGED <<now, cache, pc, filters, attempt, lastError, delay, result, httpCalls,
                        sleeps, outcomes, params, latest, cache0, quiet, stored,
                        events, overlap>>

(* errors *)
InitErr == LabRest /\ lab \in {[stage |-> "in", e |-> e] : e \in RawErrors}

ApplyIsRetryable ==
    /\ lab.stage = "in"
    /\ lab' = [stage |-> "retryable", e |-> lab.e, out |-> isRetryableError(lab.e)]
    /\ LabFrame

ApplyClassify ==
    /\ lab.stage = "in"
    /\ lab' = [stage |-> "class", e |-> lab.e, out |-> Classify(lab.e)]
    /\ LabFrame

NextErr == ApplyIsRetryable \/ ApplyClassify

SpecErr == InitErr /\ [][NextErr]_vars

(* filter objects *)
\* a country whose text reads like the end of one property and the start of
\* the next:  a","tag":"b
Quoted == JStr(<<"a", "\"", ",", "\"", "t", "a", "g", "\"", ":", "\"", "b">>)

FieldValues ==
    [remote |-> {JBool(TRUE), JBool(FALSE), Undef},
     limit |-> {JNum(5), JNum(20)},
     country |-> {JStr(<<"a">>), Quoted},
     tag |-> {JStr(<<"b">>), JStr(<<>>)},
     show_description |-> {JBool(TRUE), JBool(FALSE)}]

FieldNames == DOMAIN FieldValues

\* the objects with n properties: distinct field names in any order
RECURSIVE ObjectsOfSize(_)
ObjectsOfSize(n) ==
    IF n = 0 THEN {<<>>}
    ELSE {Append(o, Prop(name, v)) :
            o \in ObjectsOfSize(n - 1),
            name \in FieldNames,
            v \in UNION {FieldValues[x] : x \in FieldNames}}

WellTyped(o) ==
    /\ \A i \in 1..Len(o) : o[i].v \in FieldValues[o[i].k]
    /\ \A i, j \in 1..Len(o) : i # j => o[i].k # o[j].k

FilterObjects == UNION {{o \in ObjectsOfSize(n) : WellTyped(o)} : n \in 0..MaxFields}

\* f and g assign the same value to every field
SameAssignment(f, g) == \A name \in FieldNames : GetProp(f, name) = GetProp(g, name)

InitKey == LabRest /\ lab \in {[stage |-> "in", f |-> f] : f \in FilterObjects}

ApplyCacheKey ==
    /\ lab.stage = "in"
    /\ lab' = [stage |-> "key", f |-> lab.f, out |-> CacheKey(lab.f)]
    /\ LabFrame

\* api.ts:87-95
ApplyBuildParams ==
    /\ lab.stage = "in"
    /\ lab' = [stage |-> "params", f |-> lab.f, out |-> BuildParams(lab.f)]
    /\ LabFrame

NextKey == ApplyCacheKey \/ ApplyBuildParams

SpecKey == InitKey /\ [][NextKey]_vars

(* payloads *)
\* the sequences of at most n elements of S
RECURSIVE SeqsUpTo(_, _)
SeqsUpTo(S, n) ==
    IF n = 0 THEN {<<>>}
    ELSE LET shorter == SeqsUpTo(S, n - 1)
         IN shorter \cup {Append(q, x) : q \in shorter, x \in S}

\* elements of the outer array of a response
TopElems == {Banner, JNull, JNum(7), JobX, JArr(<<>>), JArr(<< JobX >>),
             JArr(<< JNull, Banner >>)}

\* elements of a job list
ListElems == {JNull, Banner, JNum(7), JBool(TRUE), JobX, JArr(<<>>), JArr(<< Banner >>)}

\* descriptions: an optional long run of text followed by a few pieces
RECURSIVE Flatten(_)
Flatten(q) == IF q = <<>> THEN <<>> ELSE q[1] \o Flatten(Tail(q))

LongText(n) == [i \in 1..n |-> "a"]

Pieces == {<<"<", "b", ">">>, <<"a">>, <<" ">>, <<"<">>, <<">">>}

Descriptions ==
    {prefix \o Flatten(q) :
        prefix \in {<<>>, LongText(DESCRIPTION_LIMIT - 2)},
        q \in SeqsUpTo(Pieces, MaxPieces)}
    \cup {LongText(600)}

JobWithDescription(d) == JObj(<< Prop("description", JStr(d)) >>)

\* properties of upstream job objects: known fields with a value of the
\* expected type and of another type, and keys outside the known set
JobProps ==
    {Prop("title", JStr(<<"X">>)), Prop("title", JNum(7)),
     Prop("remote", JBool(TRUE)), Prop("remote", JStr(<<"y", "e", "s">>)),
     Prop("tags", JArr(<< Banner, JNum(7) >>)), Prop("tags", Banner),
     Prop("description", JNum(7)),
     Prop("extra", JNum(7)), Prop("logo", JNull),
     Prop("constructor", JStr(<<"c">>))}

DistinctKeys(o) == \A i, j \in 1..Len(o) : i # j => o[i].k # o[j].k

JobObjects == {JObj(o) : o \in {q \in SeqsUpTo(JobProps, MaxProps) : DistinctKeys(q)}}

NormPayloads ==
    {JArr(q) : q \in SeqsUpTo(TopElems, MaxPayloadLen)}
    \cup {JArr(<< Banner, Banner, JArr(l) >>) : l \in SeqsUpTo(ListElems, MaxListLen)}
    \cup {JArr(<< Banner, Banner, JArr(<< JobWithDescription(d) >>) >>) : d \in Descriptions}
    \cup {JArr(<< Banner, Banner, JArr(<< job >>) >>) : job \in JobObjects}
    \cup {NotAnArray, JNull, Banner}

InitNorm == LabRest /\ lab \in {[stage |-> "in", data |-> d] : d \in NormPayloads}

\* api.ts:98-154
ApplyNormalize ==
    /\ lab.stage = "in"
    /\ lab' = [stage |-> "norm", data |-> lab.data, out |-> Normalize(lab.data)]
    /\ LabFrame

NextNorm == ApplyNormalize

SpecNorm == InitNorm /\ [][NextNorm]_vars

(* backoff delay *)
InitDelay ==
    LabRest /\ lab \in {[stage |-> "in", a |-> a, n |-> n] :
                          a \in 0..MaxAttemptIndex, n \in 0..(RandDen - 1)}

\* api.ts:54-59 with Math.random() = n / RandDen
ApplyBackoffDelay ==
    /\ lab.stage = "in"
    /\ lab' = [stage |-> "delay", a |-> lab.a, n |-> lab.n,
               base |-> BaseDelay(lab.a), out |-> BackoffDelay(lab.a, lab.n)]
    /\ LabFrame

NextDelay == ApplyBackoffDelay

SpecDelay == InitDelay /\ [][NextDelay]_vars

(* service instances *)
Instances == {1, 2}
OtherToken == JStr(<<"o", "t", "h">>)

\* the credential given to the constructor of each instance, api.ts:16-17
TokenOf(i) == IF i = 1 THEN Token ELSE OtherToken

CacheSlotShared(i) == 1

\* this.cache = new SimpleCache(CACHE_TTL_MS), api.ts:18: the cache that
\* instance i reads and writes is its own
CacheSlot(i) == i

\* the parameters of a request of the instance holding token, api.ts:87-95:
\* token: this.token, then what the filters add
InstanceParams(token, f) == << Prop("token", token) >> \o Tail(BuildParams(f))

\* the upstream's answer to a request: one job, titled with the credential the
\* request carried, so that a list tells for which credential it was fetched
UpstreamAnswer(q) ==
    JArr(<< Banner, Banner, JArr(<< JObj(<< Prop("title", GetProp(q, "token")) >>) >>) >>)

IsoFilters == {<<>>, RemoteLimit}

InitIso ==
    LabRest /\ lab = [stage |-> "svc", t |-> 0,
                      caches |-> [c \in Instances |-> EmptyMap],
                      sent |-> {},
                      ret |-> NoCall]

\* getJobs(f) on instance i, api.ts:78-160, taken as one step; answered tells
\* whether the upstream answers the request or every attempt fails
IsoGetJobs(i, f, answered) ==
    /\ lab.stage = "svc"
    /\ LET key == CacheKey(f)
           got == CacheGet(lab.caches[CacheSlot(i)], key, lab.t)
           q == InstanceParams(TokenOf(i), f)
           norm == Normalize(UpstreamAnswer(q))
       IN IF Truthy(got.value)
          THEN lab' = [lab EXCEPT !.caches[CacheSlot(i)] = got.map,
                                  !.ret = [inst |-> i, ok |-> TRUE, hit |-> TRUE,
                                           jobs |-> got.value]]
          ELSE IF answered
          THEN lab' = [lab EXCEPT !.caches[CacheSlot(i)] =
                                      StoreIfNormalized(got.map, key, norm, lab.t),
                                  !.sent = @ \cup {[inst |-> i, params |-> q]},
                                  !.ret = [inst |-> i, ok |-> TRUE, hit |-> FALSE,
                                           jobs |-> JArr(norm.jobs)]]
          ELSE lab' = [lab EXCEPT !.caches[CacheSlot(i)] = got.map,
                                  !.sent = @ \cup {[inst |-> i, params |-> q]},
                                  !.ret = [inst |-> i, ok |-> FALSE]]
    /\ LabFrame

\* time passes
IsoTick ==
    /\ lab.stage = "svc"
    /\ lab.t < MaxTicks * TickMs
    /\ lab' = [lab EXCEPT !.t = @ + TickMs]
    /\ LabFrame

NextIso ==
    \/ \E i \in Instances, f \in IsoFilters, answered \in BOOLEAN : IsoGetJobs(i, f, answered)
    \/ IsoTick

SpecIso == InitIso /\ [][NextIso]_vars

(* the cache on its own *)
CacheKeys == {"a", "b"}
CacheValues == {JArr(<<>>), JArr(<< JObj(<< Prop("title", JStr(<<"X">>)) >>) >>)}
CacheTtls == {Undef, JNum(0), JNum(TickMs)}

\* cleared: the keys not set since the last clear
InitCache ==
    LabRest /\ lab = [stage |-> "cache", t |-> 0, map |-> EmptyMap, cleared |-> {},
                      last |-> [op |-> "none"]]

\* cache.set(k, v, ttlMs), ttlMs omitted when it is Undef; part_002:9-12
DoSet(k, v, ttlMs) ==
    /\ lab.stage = "cache"
    /\ lab' = [lab EXCEPT !.map = CacheSetTtl(@, k, v, ttlMs, lab.t),
                          !.cleared = @ \ {k},
                          !.last = [op |-> "set", k |-> k, v |-> v, ttl |-> ttlMs]]
    /\ LabFrame

\* cache.get(k), part_002:14-24
DoGet(k) ==
    /\ lab.stage = "cache"
    /\ LET got == CacheGet(lab.map, k, lab.t)
       IN lab' = [lab EXCEPT !.map = got.map,
                             !.last = [op |-> "get", k |-> k, out |-> got.value]]
    /\ LabFrame

\* cache.clear(), part_002:26-28
DoClear ==
    /\ lab.stage = "cache"
    /\ lab' = [lab EXCEPT !.map = CacheClear(@),
                          !.cleared = CacheKeys,
                          !.last = [op |-> "clear"]]
    /\ LabFrame

\* time passes
CacheTick ==
    /\ lab.stage = "cache"
    /\ lab.t < MaxTicks * TickMs
    /\ lab' = [lab EXCEPT !.t = @ + TickMs, !.last = [op |-> "tick"]]
    /\ LabFrame

NextCache ==
    \/ \E k \in CacheKeys, v \in CacheValues, ttlMs \in CacheTtls : DoSet(k, v, ttlMs)
    \/ \E k \in CacheKeys : DoGet(k)
    \/ DoClear
    \/ CacheTick

SpecCache == InitCache /\ [][NextCache]_vars

-----------------------------------------------------------------------------
(* Properties *)

Done(p) == pc[p] = "done"
Failed(p) == Done(p) /\ ~result[p].ok
KeyOf(p) == CacheKey(filters[p])

\* the step is the call of getJobs by p
CallStep(p) == pc[p] = "idle" /\ pc'[p] # "idle"

\* a failed attempt the backoff policy calls transient: 429, >= 500, or no response
Transient(o) ==
    /\ ~o.ok
    /\ o.err.axios
    /\ \/ o.err.response /\ (o.err.status = 429 \/ o.err.status >= 500)
       \/ ~o.err.response /\ o.err.request

\* a failed attempt with a 4xx status other than 429
ClientFailure(o) ==
    /\ ~o.ok
    /\ o.err.axios /\ o.err.response
    /\ o.err.status >= 400 /\ o.err.status < 500 /\ o.err.status # 429

\* C1: a call of getJobs(f) made while the list last stored for the key of f (by a
\* getJobs that succeeded, no clear since) is within its TTL window settles at once
\* with that list, and makes no HTTP attempt and no backoff sleep.
CacheHitIdempotence ==
    [][\A p \in Procs :
         LET k == CacheKey(filters'[p])
         IN (CallStep(p) /\ k \in DOMAIN stored /\ now <= stored[k].at + CACHE_TTL_MS)
            => /\ pc'[p] = "done"
               /\ result'[p] = [ok |-> TRUE, hit |-> TRUE, jobs |-> stored[k].value]
               /\ httpCalls'[p] = 0
               /\ sleeps'[p] = 0
               /\ outcomes'[p] = <<>>]_vars

\* C1 witness: a hit on the last instant of the TTL window
CacheHitAtWindowEnd ==
    \E p \in Procs :
        /\ Done(p) /\ result[p].ok /\ result[p].hit
        /\ httpCalls[p] = 0
        /\ KeyOf(p) \in DOMAIN stored
        /\ now = stored[KeyOf(p)].at + CACHE_TTL_MS

\* every cache entry holds the list normalised from some well-shaped payload
EntriesAreNormalizedLists ==
    \A k \in DOMAIN cache :
        \E d \in Payloads : Normalize(d).ok /\ cache[k].value = JArr(Normalize(d).jobs)

\* C2 as stated: after a getJobs invocation that ends in failure (nothing else having
\* changed the cache meanwhile) the cache equals the cache before the call.
FailureLeavesCacheAsBefore ==
    \A p \in Procs : (Failed(p) /\ latest = p /\ quiet) => cache = cache0

\* C2 as amended: a getJobs invocation that ends in failure stores nothing; the cache
\* after it is the cache before it, less the expired entry of its own key when the
\* lookup removed one; and every cache entry holds a successfully normalised list.
NoErrorIsCached ==
    /\ EntriesAreNormalizedLists
    /\ \A p \in Procs :
         (Failed(p) /\ latest = p /\ quiet)
         => \/ cache = cache0
            \/ /\ KeyOf(p) \in DOMAIN cache0
               /\ cache0[KeyOf(p)].expiry < now
               /\ cache = MapDelete(cache0, KeyOf(p))

\* C2 witness: an invocation failed while the cache held an entry, which is still there
FailedWithEntriesKept ==
    \E p \in Procs :
        /\ Failed(p) /\ latest = p /\ quiet
        /\ cache0 # EmptyMap
        /\ cache = cache0

\* C3: when the first attempt fails with a 4xx status other than 429, getJobs makes
\* exactly one HTTP attempt and no sleep, and fails with that error, which the handler
\* reports as Unauthorized for 401 (Forbidden for 403, a client error otherwise).
NonRetryableFailsAtOnce ==
    \A p \in Procs :
        (Done(p) /\ outcomes[p] # <<>> /\ ClientFailure(outcomes[p][1]))
        => /\ httpCalls[p] = 1
           /\ sleeps[p] = 0
           /\ Len(outcomes[p]) = 1
           /\ result[p] = [ok |-> FALSE, err |-> outcomes[p][1].err]
           /\ HandlerResult(result[p]).isError
           /\ HandlerResult(result[p]).class =
                  (IF outcomes[p][1].err.status = 401 THEN "Unauthorized"
                   ELSE IF outcomes[p][1].err.status = 403 THEN "Forbidden"
                   ELSE "UpstreamClientError")

\* C3 witness: a call that ended on a 401 answer to its first attempt
UnauthorizedAfterOneAttempt ==
    \E p \in Procs :
        /\ Done(p) /\ outcomes[p] = << [ok |-> FALSE, err |-> HttpError(401)] >>
        /\ httpCalls[p] = 1
        /\ HandlerResult(result[p]).class = "Unauthorized"

\* C4: when the first k attempts (k <= 3) fail with transient errors and the next is
\* answered with a well-shaped payload, getJobs returns the list normalised from that
\* payload after exactly k+1 HTTP attempts and k sleeps, and (nothing else having
\* changed the cache since) the cache holds that list under the key of the filters.
RetryThenSuccess ==
    \A p \in Procs :
        LET n == Len(outcomes[p])
        IN (/\ Done(p) /\ n >= 1 /\ n - 1 <= 3
            /\ \A i \in 1..(n - 1) : Transient(outcomes[p][i])
            /\ outcomes[p][n].ok /\ Normalize(outcomes[p][n].data).ok)
           => LET list == JArr(Normalize(outcomes[p][n].data).jobs)
              IN /\ result[p] = [ok |-> TRUE, hit |-> FALSE, jobs |-> list]
                 /\ httpCalls[p] = n
                 /\ sleeps[p] = n - 1
                 /\ (latest = p /\ quiet)
                    => (KeyOf(p) \in DOMAIN cache /\ cache[KeyOf(p)].value = list)

\* C4 witness: 503, 503, then 200 with a well-shaped payload
SucceededAfterTwo503 ==
    \E p \in Procs :
        /\ Done(p) /\ result[p].ok /\ Len(outcomes[p]) = 3
        /\ outcomes[p][1] = [ok |-> FALSE, err |-> HttpError(503)]
        /\ outcomes[p][2] = [ok |-> FALSE, err |-> HttpError(503)]
        /\ httpCalls[p] = 3 /\ sleeps[p] = 2
        /\ latest = p /\ quiet /\ KeyOf(p) \in DOMAIN cache

\* C5: an invocation never makes more than 4 HTTP attempts; when every attempt fails
\* with a transient error it makes exactly 4 and fails with the error of the last.
AttemptBound ==
    \A p \in Procs :
        /\ httpCalls[p] <= 4
        /\ (Done(p) /\ outcomes[p] # <<>>
            /\ \A i \in 1..Len(outcomes[p]) : Transient(outcomes[p][i]))
           => /\ httpCalls[p] = 4
              /\ Len(outcomes[p]) = 4
              /\ result[p] = [ok |-> FALSE, err |-> outcomes[p][4].err]

\* C5 witness: four transient failures of the three kinds
FailedAfterFourTransient ==
    \E p \in Procs :
        /\ Failed(p) /\ Len(outcomes[p]) = 4
        /\ \A i \in 1..4 : Transient(outcomes[p][i])
        /\ {outcomes[p][i].err : i \in 1..4} = {HttpError(429), HttpError(503), NetworkError}

\* C6: isRetryable is true exactly for an HTTP error of status 429 or >= 500 and for
\* a transport failure (request sent, no response); false for every other error.
RetryableExactly ==
    lab.stage = "retryable"
    => lab.out = (/\ lab.e.axios
                  /\ \/ lab.e.response /\ (lab.e.status = 429 \/ lab.e.status >= 500)
                     \/ ~lab.e.response /\ lab.e.request)

\* C6 witness: the transport failure without a response has been judged retryable
NetworkFailureRetryable ==
    lab.stage = "retryable" /\ lab.e = NetworkError /\ lab.out = TRUE

\* C7: the classifier gives every raw error exactly the class of the mapping:
\* 401, 403, 429, >= 500, other >= 400, request without response, everything else.
HasStatus(e) == e.axios /\ e.response

ClassifierMapping ==
    lab.stage = "class"
    => LET e == lab.e
           named == HasStatus(e) /\ e.status \in {401, 403, 429}
       IN /\ lab.out \in {"Unauthorized", "Forbidden", "RateLimited", "UpstreamServerError",
                         "UpstreamClientError", "NetworkUnreachable", "Unknown"}
          /\ (HasStatus(e) /\ e.status = 401) => lab.out = "Unauthorized"
          /\ (HasStatus(e) /\ e.status = 403) => lab.out = "Forbidden"
          /\ (HasStatus(e) /\ e.status = 429) => lab.out = "RateLimited"
          /\ (HasStatus(e) /\ e.status >= 500) => lab.out = "UpstreamServerError"
          /\ (HasStatus(e) /\ e.status >= 400 /\ e.status < 500 /\ ~named)
             => lab.out = "UpstreamClientError"
          /\ (e.axios /\ ~e.response /\ e.request) => lab.out = "NetworkUnreachable"
          /\ (\/ ~e.axios
              \/ HasStatus(e) /\ e.status < 400
              \/ e.axios /\ ~e.response /\ ~e.request) => lab.out = "Unknown"

\* C7 witness: a 5xx error classified
ServerErrorClassified ==
    lab.stage = "class" /\ lab.e = HttpError(503) /\ lab.out = "UpstreamServerError"

\* C8: a successful response whose payload is not a sequence makes getJobs fail at
\* once with the malformed-response error: no further attempt, no sleep, no cache write.
MalformedPayloadFails ==
    [][\A p \in Procs :
         (/\ pc[p] = "http"
          /\ Len(outcomes'[p]) = Len(outcomes[p]) + 1
          /\ outcomes'[p][Len(outcomes'[p])].ok
          /\ ~IsArray(outcomes'[p][Len(outcomes'[p])].data))
         => /\ pc'[p] = "done"
            /\ result'[p] = [ok |-> FALSE, err |-> PlainError(MalformedNotArray)]
            /\ ~isRetryableError(result'[p].err)
            /\ httpCalls'[p] = httpCalls[p]
            /\ sleeps'[p] = sleeps[p]
            /\ cache' = cache]_vars

\* C8 witness: the call failed on the payload {"foo":"bar"} after one attempt
FailedOnNonArray ==
    \E p \in Procs :
        /\ Failed(p)
        /\ outcomes[p] = << [ok |-> TRUE, data |-> NotAnArray] >>
        /\ result[p].err.message = MalformedNotArray
        /\ httpCalls[p] = 1 /\ sleeps[p] = 0
        /\ latest = p /\ quiet /\ cache = cache0

\* C9: the lookup of a call returns the stored value and leaves the entry in place
\* when the time has not passed expiresAt; when it has, it removes the entry and
\* reports absent; and no step other than such a lookup, or clear, removes an entry.
LazyExpiry ==
    [][/\ \A p \in Procs :
            LET k == CacheKey(filters'[p])
            IN (CallStep(p) /\ k \in DOMAIN cache)
               => IF now <= cache[k].expiry
                  THEN /\ cache' = cache
                       /\ pc'[p] = "done"
                       /\ result'[p] = [ok |-> TRUE, hit |-> TRUE, jobs |-> cache[k].value]
                  ELSE /\ cache' = MapDelete(cache, k)
                       /\ pc'[p] = "http"
       /\ \A k \in DOMAIN cache :
            k \notin DOMAIN cache'
            => \/ Clear
               \/ \E p \in Procs : /\ CallStep(p) /\ CacheKey(filters'[p]) = k
                                   /\ now > cache[k].expiry]_vars

\* C9 witness: the lookup of the call in flight has just removed the expired entry
ExpiredEntryRemovedAtLookup ==
    \E p \in Procs :
        /\ pc[p] = "http" /\ latest = p /\ quiet
        /\ KeyOf(p) \in DOMAIN cache0
        /\ cache0[KeyOf(p)].expiry < now
        /\ cache = MapDelete(cache0, KeyOf(p))

\* C10 as stated: filter objects that assign the same values to the same fields get
\* the same cache key, whatever the order of their properties.
KeyCanonical ==
    lab.stage = "key"
    => \A g \in FilterObjects : SameAssignment(lab.f, g) => CacheKey(g) = lab.out

\* C11: filter objects that give some field (remote, limit, country, tag,
\* show_description) different values have different cache keys.
KeyInjective ==
    lab.stage = "key" =>
        \A g \in FilterObjects :
            ~SameAssignment(lab.f, g) => CacheKey(g) # lab.out

\* the key of {country: 'a","tag":"b'} has been computed; without escaping it
\* would read like the key of {country: "a", tag: "b"}
KeyOfQuotedCountry ==
    /\ lab.stage = "key"
    /\ lab.f = << Prop("country", Quoted) >>
    /\ lab.out = "{\"country\":\"a\\\",\\\"tag\\\":\\\"b\"}"

\* C12: with b = min(1000 * 2^a, 10000) and the jitter j = b * 0.2 * (2r - 1)
\* of the draw r = n / RandDen, the delay is the integer floor(b + j); b is
\* 1000, 2000, 4000 over attempts 0..2 and never decreases; the delay lies
\* within 20% of b and never exceeds 1.2 * MAX_RETRY_DELAY_MS = 12000.
BackoffWindow ==
    lab.stage = "delay" =>
        LET b == CASE lab.a = 0 -> 1000
                   [] lab.a = 1 -> 2000
                   [] lab.a = 2 -> 4000
                   [] lab.a = 3 -> 8000
                   [] OTHER -> 10000
            d == lab.out
            \* (b + j) * 5 * RandDen
            scaled == b * 5 * RandDen + b * (2 * lab.n - RandDen)
        IN  /\ lab.base = b
            /\ d \in Nat
            /\ d * 5 * RandDen <= scaled
            /\ scaled < (d + 1) * 5 * RandDen
            /\ 0 - b * RandDen <= b * (2 * lab.n - RandDen)
            /\ b * (2 * lab.n - RandDen) <= b * RandDen
            /\ 4 * b < 5 * (d + 1)
            /\ 5 * d <= 6 * b
            /\ 5 * d <= 6 * MAX_RETRY_DELAY_MS
            /\ \A a \in 0..lab.a : BaseDelay(a) <= lab.base

\* the delay of attempt 4 at the highest draw: the base is capped and the
\* jitter lifts the delay above the cap
CappedDelayWithJitter ==
    /\ lab.stage = "delay"
    /\ lab.a = 4
    /\ lab.n = RandDen - 1
    /\ lab.base = MAX_RETRY_DELAY_MS
    /\ lab.out > MAX_RETRY_DELAY_MS

\* C13: the parameters of the request always hold token = the credential of
\* the service; they hold remote only if filters.remote is true, limit,
\* country and tag only if the filter provides them (with the filter's value),
\* show_description = "false" only if filters.show_description is false, and
\* nothing else.
RequestParams ==
    lab.stage = "params" =>
        LET f == lab.f
            q == lab.out
            Has(k) == GetProp(q, k) # Undef
        IN  /\ GetProp(q, "token") = Token
            /\ Has("remote") =>
                    /\ GetProp(f, "remote") = JBool(TRUE)
                    /\ GetProp(q, "remote") = TrueString
            /\ \A k \in {"limit", "country", "tag"} :
                    Has(k) => /\ GetProp(f, k) # Undef
                              /\ GetProp(q, k) = GetProp(f, k)
            /\ Has("show_description") =>
                    /\ GetProp(f, "show_description") = JBool(FALSE)
                    /\ GetProp(q, "show_description") = FalseString
            /\ GetProp(f, "show_description") \in {Undef, JBool(TRUE)}
                    => ~Has("show_description")
            /\ \A i \in 1..Len(q) :
                    q[i].k \in {"token", "remote", "limit", "country", "tag",
                                "show_description"}

\* the request of {remote: false, show_description: false}: no remote
\* parameter, show_description = "false"
RemoteFalseNotSent ==
    /\ lab.stage = "params"
    /\ lab.f = << Prop("remote", JBool(FALSE)), Prop("show_description", JBool(FALSE)) >>
    /\ lab.out = << Prop("token", Token), Prop("show_description", FalseString) >>

\* the index of the first element of payload a that is a sequence
FirstSequenceAt(a) ==
    CHOOSE i \in 1..Len(a) : IsArray(a[i]) /\ \A k \in 1..(i - 1) : ~IsArray(a[k])

\* C14: when some element of the payload sequence is itself a sequence, the
\* first such element is the job list, at whatever position and whatever the
\* other elements are: the result is that list, element by element.
JobListIsFirstSequence ==
    (/\ lab.stage = "norm"
     /\ IsArray(lab.data)
     /\ \E i \in 1..Len(lab.data.a) : IsArray(lab.data.a[i]))
    => LET list == lab.data.a[FirstSequenceAt(lab.data.a)].a
       IN  /\ lab.out.ok
           /\ lab.out.jobs = [k \in 1..Len(list) |-> ProcessJob(list[k])]

\* the payload [job, [], [job]]: the job list is the empty second element,
\* not the payload itself and not the later sequence
FirstSequenceWins ==
    /\ lab.stage = "norm"
    /\ lab.data = JArr(<< JobX, JArr(<<>>), JArr(<< JobX >>) >>)
    /\ lab.out.ok
    /\ lab.out.jobs = <<>>

\* the job list of a normalised payload and its string descriptions
LocatedList == lab.data.a[FirstSequenceAt(lab.data.a)].a

HasLocatedList ==
    /\ lab.stage = "norm"
    /\ IsArray(lab.data)
    /\ \E i \in 1..Len(lab.data.a) : IsArray(lab.data.a[i])
    /\ lab.out.ok

DescriptionIn(k) ==
    IF LocatedList[k].t = "obj" THEN GetProp(LocatedList[k].o, "description") ELSE Undef

DescriptionOut(k) == GetProp(lab.out.jobs[k], "description")

\* s has a substring made of "<", one or more characters other than ">", ">"
HasTag(s) ==
    \E i \in 1..Len(s) :
        /\ s[i] = "<"
        /\ \E j \in (i + 2)..Len(s) :
                s[j] = ">" /\ \A k \in (i + 1)..(j - 1) : s[k] # ">"

\* C15 as stated: every description of a returned job is free of tags and has
\* at most 500 characters.
DescriptionAtMostLimit ==
    HasLocatedList =>
        \A k \in 1..Len(lab.out.jobs) :
            DescriptionOut(k) # Undef =>
                /\ ~HasTag(DescriptionOut(k).s)
                /\ Len(DescriptionOut(k).s) <= 500

\* C15 amended: every description of a returned job is free of tags and has
\* at most 503 characters, 500 of text and the 3 of the ellipsis marker.
DescriptionBounded ==
    HasLocatedList =>
        \A k \in 1..Len(lab.out.jobs) :
            DescriptionOut(k) # Undef =>
                /\ IsString(DescriptionOut(k))
                /\ ~HasTag(DescriptionOut(k).s)
                /\ Len(DescriptionOut(k).s) <= 503

\* a description of 498 characters, a tag and two more characters: returned
\* without the tag, cut and marked, 503 characters long
LongTaggedDescription ==
    /\ HasLocatedList
    /\ LocatedList = << JobWithDescription(LongText(498) \o <<"<", "b", ">", "a", "a">>) >>
    /\ Len(DescriptionOut(1).s) = 503
    /\ ~HasTag(DescriptionOut(1).s)

\* index of the first ">" after position i of s, 0 when there is none
TagEnd(s, i) ==
    IF \E j \in (i + 1)..Len(s) : s[j] = ">"
    THEN CHOOSE j \in (i + 1)..Len(s) :
            s[j] = ">" /\ \A k \in (i + 1)..(j - 1) : s[k] # ">"
    ELSE 0

\* positions where a tag starts: a "<" closed two or more positions later and
\* not inside a tag that starts earlier
TagStarts(s) ==
    LET open == {i \in 1..Len(s) : s[i] = "<" /\ TagEnd(s, i) >= i + 2}
    IN {i \in open : ~\E h \in open : h < i /\ TagEnd(s, h) > i}

\* s with every tag left out (gap = <<>>) or replaced by one space
WithoutTags(s, space) ==
    LET starts == TagStarts(s)
        Inside(k) == \E i \in starts : i < k /\ k <= TagEnd(s, i)
        Kept(k) == ~Inside(k) /\ (space \/ k \notin starts)
        kept == SelectSeq([k \in 1..Len(s) |-> k], Kept)
    IN [n \in 1..Len(kept) |-> IF kept[n] \in starts THEN " " ELSE s[kept[n]]]

\* s with its first run of whitespace, and then every later one, made one space
RECURSIVE SpacesCollapsed(_)
SpacesCollapsed(s) ==
    LET blank == {i \in 1..Len(s) : s[i] \in Whitespace}
    IN IF blank = {} THEN s
       ELSE LET i == CHOOSE x \in blank : \A y \in blank : x <= y
                ink == {k \in (i + 1)..Len(s) : s[k] \notin Whitespace}
                j == IF ink = {} THEN Len(s) + 1
                     ELSE CHOOSE x \in ink : \A y \in ink : x <= y
            IN SubSeq(s, 1, i - 1) \o <<" ">> \o SpacesCollapsed(SubSeq(s, j, Len(s)))

\* s from its first to its last character that is not whitespace
Trimmed(s) ==
    LET ink == {k \in 1..Len(s) : s[k] \notin Whitespace}
    IN IF ink = {} THEN <<>>
       ELSE SubSeq(s, CHOOSE x \in ink : \A y \in ink : x <= y,
                      CHOOSE x \in ink : \A y \in ink : x >= y)

\* the first 500 characters and the marker when c is longer than 500
Shortened(c) == IF Len(c) > 500 THEN SubSeq(c, 1, 500) \o <<".", ".", ".">> ELSE c

\* C16 as stated: the description returned is the input with every tag
\* removed, whitespace runs collapsed to one space, trimmed, and cut to 500
\* characters plus the 3-character marker when longer.
DescriptionTagsRemoved ==
    HasLocatedList =>
        \A k \in 1..Len(lab.out.jobs) :
            IsString(DescriptionIn(k)) =>
                DescriptionOut(k) =
                    JStr(Shortened(Trimmed(SpacesCollapsed(WithoutTags(DescriptionIn(k).s, FALSE)))))

\* C16 amended: the description returned is the input with every tag replaced
\* by one space, whitespace runs collapsed to one space, trimmed; a cleaned
\* text of more than 500 characters is cut to its first 500 characters plus
\* the 3-character marker (503 characters), a shorter one is left as it is.
DescriptionCleaned ==
    HasLocatedList =>
        \A k \in 1..Len(lab.out.jobs) :
            IsString(DescriptionIn(k)) =>
                LET c == Trimmed(SpacesCollapsed(WithoutTags(DescriptionIn(k).s, TRUE)))
                IN  /\ DescriptionOut(k) = JStr(Shortened(c))
                    /\ Len(c) > 500 => Len(DescriptionOut(k).s) = 503
                    /\ Len(c) <= 500 => DescriptionOut(k).s = c

\* a description of 600 characters is returned as its first 500 characters
\* and the marker
SixHundredCutTo503 ==
    /\ HasLocatedList
    /\ LocatedList = << JobWithDescription(LongText(600)) >>
    /\ DescriptionOut(1).s = LongText(500) \o <<".", ".", ".">>

\* a Job record without any defined field
IsEmptyJob(j) == \A i \in 1..Len(j) : j[i].v = Undef

\* C17: once the job list is located normalisation succeeds, the output has
\* the length and order of the job list, and every element that is not a
\* mapping (null, string, number, boolean, nested sequence) is replaced by an
\* empty Job record at its position.
ElementTolerance ==
    (/\ lab.stage = "norm"
     /\ IsArray(lab.data)
     /\ \E i \in 1..Len(lab.data.a) : IsArray(lab.data.a[i]))
    => /\ lab.out.ok
       /\ Len(lab.out.jobs) = Len(LocatedList)
       /\ \A k \in 1..Len(LocatedList) :
              IF LocatedList[k].t = "obj"
              THEN lab.out.jobs[k] = ProcessJob(LocatedList[k])
              ELSE IsEmptyJob(lab.out.jobs[k])

\* C18: an invocation whose fetch ends while another invocation of the same
\* key is still fetching made its own HTTP request and so did the other; it
\* returns the list normalised from its own response and leaves that list in
\* the cache, over whatever the other invocation stored before.
ConcurrentMisses ==
    [][\A p \in Procs :
          (pc[p] = "http" /\ pc'[p] = "done" /\ result'[p].ok) =>
              LET own == outcomes'[p][Len(outcomes'[p])]
              IN  /\ own.ok
                  /\ result'[p].jobs = JArr(Normalize(own.data).jobs)
                  /\ ~result'[p].hit
                  /\ httpCalls[p] >= 1
                  /\ KeyOf(p) \in DOMAIN cache'
                  /\ cache'[KeyOf(p)].value = result'[p].jobs
                  /\ \A q \in Procs \ {p} :
                        (KeyOf(q) = KeyOf(p) /\ pc[q] \in {"http", "sleep"}) =>
                            /\ httpCalls[q] >= 1
                            /\ pc'[q] = pc[q]
                            /\ result'[q] = result[q]]_vars

\* two invocations of one key have both missed and fetched, got different
\* lists, and the cache holds the list of the one that stored last
BothMissedLastWriterWins ==
    /\ Done(1) /\ Done(2)
    /\ filters[1] = filters[2]
    /\ result[1].ok /\ result[2].ok
    /\ ~result[1].hit /\ ~result[2].hit
    /\ httpCalls[1] = 1 /\ httpCalls[2] = 1
    /\ result[1].jobs # result[2].jobs
    /\ cache[KeyOf(1)].value = result[2].jobs
    /\ stored[KeyOf(1)].value = result[2].jobs

\* C19: while an invocation is suspended in a retry delay, every other
\* invocation can take its next step, whatever that is: start (from the cache
\* or with its own fetch), have its request settled, fire its own timer, or
\* hand its result over.
NonBlockingBackoff ==
    \A p \in Procs :
        pc[p] = "sleep" =>
            \A q \in Procs \ {p} :
                /\ pc[q] = "idle" => \A f \in Filters : ENABLED Call(q, f)
                /\ pc[q] = "http" =>
                      /\ \A data \in {WrappedEmpty, NotAnArray} : ENABLED Resolve(q, data)
                      /\ \A e \in ConcErrors : ENABLED Reject(q, e, 0)
                /\ pc[q] = "sleep" => ENABLED Wake(q)
                /\ pc[q] = "done" => ENABLED Return(q)

\* an invocation made while the other was in a retry delay has fetched and
\* returned its list, and the other is still in that delay
CompletedDuringSleep ==
    \E p \in Procs : \E q \in Procs \ {p} :
        /\ pc[p] = "sleep"
        /\ overlap[q]
        /\ Done(q)
        /\ result[q].ok
        /\ ~result[q].hit

\* C20: whatever the failure of getJobs (an HTTP error of any class, a network
\* failure, a malformed payload, an unknown error), the handler returns a
\* result flagged isError, with one of the seven failure classes; no
\* exception escapes.
FailureBecomesErrorResult ==
    \A p \in Procs :
        Failed(p) =>
            LET h == HandlerResult(result[p])
            IN  /\ h.returned
                /\ h.isError
                /\ h.class \in {"Unauthorized", "Forbidden", "RateLimited",
                                "UpstreamServerError", "UpstreamClientError",
                                "NetworkUnreachable", "Unknown"}

\* getJobs has failed with an error that is not an HTTP or network error and
\* the handler has returned the "unexpected error" result
UnknownErrorReported ==
    \E p \in Procs :
        /\ Failed(p)
        /\ result[p].err = PlainError("boom")
        /\ HandlerResult(result[p]).returned
        /\ HandlerResult(result[p]).isError
        /\ HandlerResult(result[p]).class = "Unknown"

\* C21: after a failed attempt the retry loop stops exactly when the attempt
\* index is maxRetries or the error of that attempt is not transient; the
\* invocation then fails with the error of that last attempt.  Otherwise it
\* sleeps, and the sleep is always followed by another attempt.
StopCondition ==
    [][\A p \in Procs :
          /\ (pc[p] = "http" /\ Len(outcomes'[p]) = Len(outcomes[p]) + 1
               /\ ~outcomes'[p][Len(outcomes'[p])].ok)
              => LET o == outcomes'[p][Len(outcomes'[p])]
                 IN  /\ pc'[p] \in {"done", "sleep"}
                     /\ pc'[p] = "done" <=> (attempt[p] = 3 \/ ~Transient(o))
                     /\ pc'[p] = "done" =>
                            /\ result'[p] = [ok |-> FALSE, err |-> o.err]
                            /\ httpCalls'[p] = attempt[p] + 1
                            /\ httpCalls'[p] = Len(outcomes'[p])
          /\ (pc[p] = "sleep" /\ pc'[p] # "sleep")
              => /\ pc'[p] = "http"
                 /\ httpCalls'[p] = httpCalls[p] + 1
                 /\ attempt'[p] = attempt[p] + 1]_vars

\* 503 then 401: the invocation has ended after two attempts and the handler
\* reports Unauthorized
Failed503Then401 ==
    \E p \in Procs :
        /\ Failed(p)
        /\ outcomes[p] = << [ok |-> FALSE, err |-> HttpError(503)],
                            [ok |-> FALSE, err |-> HttpError(401)] >>
        /\ httpCalls[p] = 2
        /\ sleeps[p] = 1
        /\ result[p].err = HttpError(401)
        /\ HandlerResult(result[p]).class = "Unauthorized"

\* C22: a payload sequence without any element that is a sequence is taken
\* whole as the job list exactly when it is not empty and its first element
\* is a mapping (not null); otherwise normalisation fails with the
\* malformed-response error.
SingleShapeFallback ==
    (/\ lab.stage = "norm"
     /\ IsArray(lab.data)
     /\ \A i \in 1..Len(lab.data.a) : ~IsArray(lab.data.a[i]))
    => IF Len(lab.data.a) > 0 /\ lab.data.a[1].t = "obj"
       THEN /\ lab.out.ok
            /\ lab.out.jobs = [k \in 1..Len(lab.data.a) |-> ProcessJob(lab.data.a[k])]
       ELSE /\ ~lab.out.ok
            /\ lab.out.message = MalformedNoJobs

\* the payload [job, "a", null] has been normalised whole: three records,
\* the last two empty
WholePayloadAsJobList ==
    /\ lab.stage = "norm"
    /\ lab.data = JArr(<< JobX, Banner, JNull >>)
    /\ lab.out.ok
    /\ Len(lab.out.jobs) = 3
    /\ lab.out.jobs[1] # <<>>
    /\ lab.out.jobs[2] = <<>>
    /\ lab.out.jobs[3] = <<>>

\* C23: for every mapping in the job list, a known field has a value in the
\* output only when the input value has the expected type (string fields,
\* boolean remote, tags with its string members, string description) and is
\* absent otherwise; every input key outside the known set is in the output
\* with the input's value.
FieldExtraction ==
    HasLocatedList =>
        \A k \in 1..Len(LocatedList) :
            LocatedList[k].t = "obj" =>
                LET in == LocatedList[k].o
                    out == lab.out.jobs[k]
                IN  /\ \A f \in {"id", "title", "company", "location", "url", "salary",
                                  "postedAt"} :
                          GetProp(out, f) =
                              (IF IsString(GetProp(in, f)) THEN GetProp(in, f) ELSE Undef)
                    /\ GetProp(out, "remote") =
                          (IF IsBoolean(GetProp(in, "remote")) THEN GetProp(in, "remote")
                           ELSE Undef)
                    /\ GetProp(out, "tags") =
                          (IF IsArray(GetProp(in, "tags"))
                           THEN JArr(SelectSeq(GetProp(in, "tags").a, IsString))
                           ELSE Undef)
                    /\ IsString(GetProp(out, "description"))
                          <=> IsString(GetProp(in, "description"))
                    /\ ~IsString(GetProp(in, "description"))
                          => GetProp(out, "description") = Undef
                    /\ \A i \in 1..Len(in) :
                          in[i].k \notin KnownFields => GetProp(out, in[i].k) = in[i].v

\* the step settles the fetch of invocation p with a list
FetchSucceeds(p) == pc[p] = "http" /\ pc'[p] = "done" /\ result'[p].ok

\* C24: an entry appears or changes only in the step in which an invocation
\* that missed the cache gets a well-shaped answer: the entry of its key then
\* holds the list normalised from that answer, which is the list the
\* invocation returns.  An entry disappears only by clear or at a lookup of
\* its own key after its expiry.
EntryLifecycle ==
    [][/\ \A k \in DOMAIN cache' :
            (k \notin DOMAIN cache \/ cache'[k] # cache[k])
            => \E p \in Procs :
                   /\ FetchSucceeds(p)
                   /\ KeyOf(p) = k
                   /\ httpCalls[p] >= 1
                   /\ ~result'[p].hit
                   /\ LET own == outcomes'[p][Len(outcomes'[p])]
                      IN  /\ own.ok
                          /\ Normalize(own.data).ok
                          /\ cache'[k].value = JArr(Normalize(own.data).jobs)
                   /\ result'[p].jobs = cache'[k].value
       /\ \A p \in Procs :
            (pc[p] # "done" /\ pc'[p] = "done" /\ result'[p].ok /\ ~result'[p].hit)
            => (KeyOf(p) \in DOMAIN cache' /\ cache'[KeyOf(p)].value = result'[p].jobs)
       /\ \A k \in DOMAIN cache \ DOMAIN cache' :
            \/ cache' = EmptyMap /\ pc' = pc
            \/ \E p \in Procs :
                   /\ CallStep(p)
                   /\ CacheKey(filters'[p]) = k
                   /\ now > cache[k].expiry
                   /\ cache' = MapDelete(cache, k)]_vars

\* an invocation that missed has fetched, stored its list under a key that
\* had no entry and holds the stored list as its result, while the entry of
\* the other key, already expired, is still in the cache
EntryCreatedAfterMiss ==
    \E p \in Procs :
        /\ Done(p) /\ result[p].ok /\ ~result[p].hit
        /\ latest = p /\ quiet
        /\ KeyOf(p) \notin DOMAIN cache0
        /\ KeyOf(p) \in DOMAIN cache
        /\ cache[KeyOf(p)].value = result[p].jobs
        /\ \E k \in DOMAIN cache : k # KeyOf(p) /\ cache[k].expiry < now

\* C25: the entry getJobs stores at time t expires at t + 5 minutes, t being
\* the time of the store, not of the call; a getJobs of the same key made no
\* later than that is a hit, a later one is a miss that removes the entry,
\* fetches again, and on success stores a new entry that expires 5 minutes
\* after the new store.
TtlWindow ==
    [][/\ \A p \in Procs :
            FetchSucceeds(p) =>
                /\ cache'[KeyOf(p)].expiry = now + 5 * 60 * 1000
                /\ stored'[KeyOf(p)].at = now
       /\ \A k \in DOMAIN cache' :
            /\ k \in DOMAIN stored'
            /\ cache'[k].expiry = stored'[k].at + 5 * 60 * 1000
       /\ \A p \in Procs :
            LET k == CacheKey(filters'[p])
            IN (CallStep(p) /\ k \in DOMAIN cache)
               => IF now <= stored[k].at + 5 * 60 * 1000
                  THEN /\ pc'[p] = "done"
                       /\ result'[p].ok /\ result'[p].hit
                       /\ httpCalls'[p] = 0
                  ELSE /\ pc'[p] = "http"
                       /\ httpCalls'[p] = 1
                       /\ k \notin DOMAIN cache']_vars

\* a call made after the entry of its key had expired has missed, fetched
\* again and stored an entry that expires 5 minutes after this store
RefetchedAfterExpiry ==
    \E p \in Procs :
        /\ Done(p) /\ result[p].ok /\ ~result[p].hit
        /\ latest = p /\ quiet
        /\ KeyOf(p) \in DOMAIN cache0
        /\ cache0[KeyOf(p)].expiry < now
        /\ KeyOf(p) \in DOMAIN cache
        /\ cache[KeyOf(p)].expiry = now + 5 * 60 * 1000

-----------------------------------------------------------------------------
(* Log events of an invocation *)
RetryEvents(p) == Len(SelectSeq(events[p], LAMBDA x : x = "warn"))
SuccessEvents(p) == Len(SelectSeq(events[p], LAMBDA x : x \in {"debug", "info"}))
FailureEvents(p) == Len(SelectSeq(events[p], LAMBDA x : x = "error"))

\* the failed attempts of p that were followed by another attempt
FollowedFailures(p) ==
    {i \in 1..Len(outcomes[p]) : ~outcomes[p][i].ok /\ i < httpCalls[p]}

\* C26 as stated: a completed invocation has emitted attempts minus one retry
\* events and exactly one terminal event, in every execution. An invocation
\* answered from the cache makes no attempt and emits no retry event, so the
\* count is not attempts minus one there.
RetryEventsAttemptsMinusOne ==
    \A p \in Procs :
        pc[p] = "done" =>
            /\ RetryEvents(p) = httpCalls[p] - 1
            /\ SuccessEvents(p) + FailureEvents(p) = 1

\* C26 amended: at every moment the retry events of an invocation are as many as
\* its failed attempts that are followed by another attempt, which is attempts
\* minus one once it has completed after at least one attempt and none when it
\* was answered from the cache; it emits no terminal event before it completes
\* and exactly one when it completes, as its last event: a success event when it
\* fulfils, a failure event when it fails.
LogEvents ==
    \A p \in Procs :
        /\ pc[p] \in {"http", "sleep"} =>
               /\ SuccessEvents(p) + FailureEvents(p) = 0
               /\ RetryEvents(p) = sleeps[p]
               /\ pc[p] = "http" => RetryEvents(p) = Cardinality(FollowedFailures(p))
        /\ pc[p] = "done" =>
               /\ RetryEvents(p) = Cardinality(FollowedFailures(p))
               /\ RetryEvents(p) = IF httpCalls[p] = 0 THEN 0 ELSE httpCalls[p] - 1
               /\ SuccessEvents(p) + FailureEvents(p) = 1
               /\ events[p][Len(events[p])] \in {"debug", "info", "error"}
               /\ SuccessEvents(p) = 1 <=> result[p].ok
               /\ FailureEvents(p) = 1 <=> ~result[p].ok

\* three attempts, the third one answered: two retry events, then the success event
TwoRetriesThenSuccess ==
    \E p \in Procs :
        /\ pc[p] = "done"
        /\ httpCalls[p] = 3
        /\ events[p] = <<"warn", "warn", "info">>

-----------------------------------------------------------------------------
(* The preview of a payload no job list was found in *)
\* JSON.stringify of a parsed payload
RECURSIVE StringifyJson(_), StringifyElems(_, _), StringifyMembers(_, _)
StringifyJson(v) ==
    CASE v.t = "arr" -> "[" \o StringifyElems(v.a, TRUE) \o "]"
      [] v.t = "obj" -> "{" \o StringifyMembers(v.o, TRUE) \o "}"
      [] OTHER -> StringifyValue(v)

StringifyElems(a, first) ==
    IF a = <<>> THEN ""
    ELSE (IF first THEN "" ELSE ",") \o StringifyJson(a[1]) \o StringifyElems(Tail(a), FALSE)

StringifyMembers(o, first) ==
    IF o = <<>> THEN ""
    ELSE IF o[1].v = Undef THEN StringifyMembers(Tail(o), first)
    ELSE (IF first THEN "" ELSE ",")
         \o "\"" \o o[1].k \o "\":" \o StringifyJson(o[1].v)
         \o StringifyMembers(Tail(o), FALSE)

PREVIEW_LENGTH == 500

\* JSON.stringify(data).substring(0, 500), as the single-file server builds it
\* (api.ts:646)
ResponsePreview(data) ==
    LET text == StringifyJson(data)
    IN SubSeq(text, 1, IF Len(text) < PREVIEW_LENGTH THEN Len(text) ELSE PREVIEW_LENGTH)

\* message ends with text
EndsWith(message, text) ==
    /\ Len(text) <= Len(message)
    /\ SubSeq(message, Len(message) - Len(text) + 1, Len(message)) = text

\* C27: when the payload is a sequence and no job list is located in it, the
\* failure carries a preview of the raw payload: its JSON text, cut to at most
\* 500 characters. The service's failure (api.ts:112-114) carries the fixed
\* message only.
MalformedCarriesPreview ==
    (lab # NoCall /\ lab.stage = "norm" /\ IsArray(lab.data) /\ ~lab.out.ok) =>
        /\ Len(ResponsePreview(lab.data)) <= 500
        /\ EndsWith(lab.out.message, ResponsePreview(lab.data))

-----------------------------------------------------------------------------
(* Cache key and upstream query *)
\* C28: filter objects with the same cache key build the same request
\* parameters, so a list stored under the key of one filter object and found
\* under the key of another was fetched for the query the other one builds.
SameKeySameQuery ==
    lab.stage = "key" =>
        \A g \in FilterObjects :
            LET afterStore == CacheSet(EmptyMap, lab.out, JArr(<< JobX >>), 0)
                got == CacheGet(afterStore, CacheKey(g), 0)
            IN  /\ CacheKey(g) = lab.out => BuildParams(g) = BuildParams(lab.f)
                /\ Truthy(got.value) => BuildParams(g) = BuildParams(lab.f)

\* the key of {remote: undefined} has been computed: it is the key of {} too,
\* and neither object sends remote
UndefinedRemoteSharesKey ==
    /\ lab.stage = "key"
    /\ lab.f = << Prop("remote", Undef) >>
    /\ lab.out = CacheKey(<<>>)
    /\ BuildParams(lab.f) = << Prop("token", Token) >>
    /\ BuildParams(<<>>) = << Prop("token", Token) >>

-----------------------------------------------------------------------------
(* No sliding expiration *)
\* the step is a call of getJobs by p that is answered from the cache
HitStep(p) == CallStep(p) /\ pc'[p] = "done" /\ result'[p].hit

\* C29: a call answered from the cache leaves the whole cache, and so the value
\* and the expiry of the entry it read, unchanged; the lookup of any call
\* leaves the entries of all other keys unchanged; every entry expires one TTL
\* after the store that created it, and a list is served from the cache no
\* later than that, whatever was read in between.
NoSlidingExpiration ==
    [][\A p \in Procs :
         LET k == CacheKey(filters'[p])
         IN  /\ HitStep(p) =>
                    /\ cache' = cache
                    /\ stored' = stored
                    /\ cache[k].expiry = stored[k].at + CACHE_TTL_MS
                    /\ now <= stored[k].at + CACHE_TTL_MS
                    /\ result'[p].jobs = stored[k].value
             /\ CallStep(p) =>
                    \A other \in DOMAIN cache \ {k} :
                        other \in DOMAIN cache' /\ cache'[other] = cache[other]
             /\ \A key \in DOMAIN cache' :
                    /\ key \in DOMAIN stored'
                    /\ cache'[key].expiry = stored'[key].at + CACHE_TTL_MS]_vars

\* a call has been answered from the cache some time after the store; the
\* entry it read still expires one TTL after the store, and the entry of the
\* other key is as it was
HitLeftExpiryAlone ==
    \E p \in Procs :
        /\ Done(p) /\ result[p].ok /\ result[p].hit
        /\ latest = p /\ quiet
        /\ now > stored[KeyOf(p)].at
        /\ cache[KeyOf(p)].expiry = stored[KeyOf(p)].at + CACHE_TTL_MS
        /\ cache = cache0
        /\ \E other \in DOMAIN cache : other # KeyOf(p)

-----------------------------------------------------------------------------
(* Backoff sleeps and attempts *)
\* C30 as stated: in every execution the backoff sleeps of a completed
\* invocation are its HTTP attempts minus one. An invocation answered from the
\* cache makes no attempt and no sleep.
SleepsAttemptsMinusOne ==
    \A p \in Procs : Done(p) => sleeps[p] = httpCalls[p] - 1

\* C30 amended: an invocation that makes at least one HTTP attempt sleeps once
\* between two attempts and never after the last one, so its sleeps are its
\* attempts minus one, at most 3 (one answered from the cache makes neither
\* attempt nor sleep); the sleep that follows the attempt of index n is
\* computed from n, which is 0, 1 or 2, so the base delay is 1000, 2000 or
\* 4000 ms, below the 10000 ms cap.
SleepsBetweenAttempts ==
    \A p \in Procs :
        /\ sleeps[p] <= 3
        /\ pc[p] = "http" => (sleeps[p] = httpCalls[p] - 1 /\ attempt[p] = sleeps[p])
        /\ pc[p] = "sleep" =>
              LET b == CASE attempt[p] = 0 -> 1000
                         [] attempt[p] = 1 -> 2000
                         [] attempt[p] = 2 -> 4000
                         [] OTHER -> 0
              IN  /\ sleeps[p] = httpCalls[p]
                  /\ attempt[p] = sleeps[p] - 1
                  /\ attempt[p] \in 0..2
                  /\ b < MAX_RETRY_DELAY_MS
                  /\ BaseDelay(attempt[p]) = b
                  /\ \E n \in 0..(RandDen - 1) :
                        /\ delay[p] * 5 * RandDen <= b * (4 * RandDen + 2 * n)
                        /\ b * (4 * RandDen + 2 * n) < (delay[p] + 1) * 5 * RandDen
                  /\ delay[p] < MAX_RETRY_DELAY_MS
        /\ Done(p) =>
              /\ httpCalls[p] <= 4
              /\ sleeps[p] = IF httpCalls[p] = 0 THEN 0 ELSE httpCalls[p] - 1
              /\ httpCalls[p] = 0 <=> (result[p].ok /\ result[p].hit)

\* an invocation has failed after four attempts and three sleeps
FourAttemptsThreeSleeps ==
    \E p \in Procs :
        /\ Failed(p)
        /\ httpCalls[p] = 4
        /\ sleeps[p] = 3
        /\ attempt[p] = 3

-----------------------------------------------------------------------------
(* Termination *)
\* C31: when every HTTP call settles and every backoff timer fires in the end,
\* every invocation of getJobs completes, with a job list or with an error; it
\* never makes more than MAX_RETRIES + 1 attempts.
Termination ==
    \A p \in Procs :
        /\ [](attempt[p] <= MAX_RETRIES /\ httpCalls[p] <= MAX_RETRIES + 1)
        /\ (pc[p] \in {"http", "sleep"}) ~>
               (Done(p) /\ (result[p].ok \/ result[p].err # Undef))

\* two invocations have completed after being in flight together: one with a
\* list after a retry, the other with an error after four attempts
BothCompleted ==
    \E p, q \in Procs :
        /\ p # q
        /\ Done(p) /\ result[p].ok /\ ~result[p].hit /\ sleeps[p] >= 1
        /\ Failed(q) /\ httpCalls[q] = 4

-----------------------------------------------------------------------------
(* Empty results *)
EmptyList == JArr(<<>>)

\* the first element of payload data that is a sequence is the empty sequence
EmptyListLocated(data) ==
    /\ IsArray(data)
    /\ \E i \in 1..Len(data.a) : IsArray(data.a[i])
    /\ data.a[FirstSequenceAt(data.a)] = EmptyList

\* C32: an answer whose located job list is empty makes getJobs return the
\* empty list and store it under the key of its filters; a getJobs whose key
\* holds the empty list and has not expired returns the empty list at once,
\* with no HTTP attempt.
EmptyResultsCached ==
    [][\A p \in Procs :
         /\ (pc[p] = "http" /\ Len(outcomes'[p]) = Len(outcomes[p]) + 1
              /\ outcomes'[p][Len(outcomes'[p])].ok
              /\ EmptyListLocated(outcomes'[p][Len(outcomes'[p])].data))
             => /\ pc'[p] = "done"
                /\ result'[p] = [ok |-> TRUE, hit |-> FALSE, jobs |-> EmptyList]
                /\ KeyOf(p) \in DOMAIN cache'
                /\ cache'[KeyOf(p)] = [value |-> EmptyList, expiry |-> now + CACHE_TTL_MS]
         /\ LET k == CacheKey(filters'[p])
            IN (CallStep(p) /\ k \in DOMAIN cache /\ cache[k].value = EmptyList
                /\ now <= cache[k].expiry)
               => /\ pc'[p] = "done"
                  /\ result'[p] = [ok |-> TRUE, hit |-> TRUE, jobs |-> EmptyList]
                  /\ httpCalls'[p] = 0
                  /\ outcomes'[p] = <<>>
                  /\ cache' = cache]_vars

\* a call has been answered from the cache with the empty list stored by an
\* earlier call, some time after the store
EmptyListHit ==
    \E p \in Procs :
        /\ Done(p) /\ result[p].ok /\ result[p].hit
        /\ result[p].jobs = EmptyList
        /\ httpCalls[p] = 0
        /\ stored[KeyOf(p)].value = EmptyList
        /\ now > stored[KeyOf(p)].at

-----------------------------------------------------------------------------
(* Credential isolation *)
\* every job of list was fetched with the credential token
FetchedWith(list, token) ==
    /\ IsArray(list)
    /\ \A k \in 1..Len(list.a) : GetProp(list.a[k], "title") = token

\* C33: with two instances constructed with different credentials, every
\* request of an instance carries that instance's credential, every list in
\* an instance's cache was fetched by that instance, and every list getJobs
\* returns on an instance, from the network or from the cache, was fetched
\* with that instance's credential.
CredentialIsolation ==
    lab.stage = "svc" =>
        /\ TokenOf(1) # TokenOf(2)
        /\ \A r \in lab.sent : GetProp(r.params, "token") = TokenOf(r.inst)
        /\ \A i \in Instances : \A k \in DOMAIN lab.caches[i] :
               FetchedWith(lab.caches[i][k].value, TokenOf(i))
        /\ (lab.ret # NoCall /\ lab.ret.ok) =>
               /\ Len(lab.ret.jobs.a) = 1
               /\ FetchedWith(lab.ret.jobs, TokenOf(lab.ret.inst))

\* both instances hold a list for the same filters, each its own, and the
\* second instance has just been answered from its cache
EachInstanceOwnList ==
    /\ lab.stage = "svc"
    /\ CacheKey(RemoteLimit) \in DOMAIN lab.caches[1]
    /\ CacheKey(RemoteLimit) \in DOMAIN lab.caches[2]
    /\ lab.caches[1][CacheKey(RemoteLimit)].value # lab.caches[2][CacheKey(RemoteLimit)].value
    /\ lab.ret # NoCall /\ lab.ret.ok /\ lab.ret.hit /\ lab.ret.inst = 2
    /\ lab.ret.jobs = lab.caches[2][CacheKey(RemoteLimit)].value

-----------------------------------------------------------------------------
(* SimpleCache.set and SimpleCache.clear *)
\* C34: set(k, v, ttl) leaves under k the value v expiring at now + ttl, at
\* now + the default TTL when ttl is omitted, whatever k held before, and
\* leaves every other key as it was; clear leaves no entry, and get of a key
\* not set since the last clear reports absent.
SetAndClear ==
    [][(lab.stage = "cache" /\ lab' # lab) =>
         LET op == lab'.last
         IN  /\ op.op = "set" =>
                   /\ op.k \in DOMAIN lab'.map
                   /\ lab'.map[op.k].value = op.v
                   /\ lab'.map[op.k].expiry =
                          lab.t + (IF op.ttl = Undef THEN 5 * 60 * 1000 ELSE op.ttl.n)
                   /\ DOMAIN lab'.map = DOMAIN lab.map \cup {op.k}
                   /\ \A other \in DOMAIN lab.map \ {op.k} :
                          lab'.map[other] = lab.map[other]
             /\ op.op = "clear" =>
                   /\ DOMAIN lab'.map = {}
                   /\ \A k \in CacheKeys : CacheGet(lab'.map, k, lab'.t).value = Undef
             /\ (op.op = "get" /\ op.k \in lab.cleared) => op.out = Undef
             /\ \A k \in lab'.cleared : k \notin DOMAIN lab'.map]_vars

\* some time after the start and after a clear, key a has just been set with
\* ttl 0 and expires at once, while key b, not set since the clear, is absent
SetAgainAfterClear ==
    /\ lab.stage = "cache"
    /\ lab.last.op = "set" /\ lab.last.k = "a" /\ lab.last.ttl = JNum(0)
    /\ lab.map["a"].expiry = lab.t
    /\ lab.t > 0
    /\ lab.cleared = {"b"}

====
